---- MODULE Spec2Model ----
(***************************************************************************)
(* The aggregation, deduplication and ranking core of the price comparison *)
(* tool: EnhancedPriceComparisonTool (enhanced_scraping_tool.py),          *)
(* MCDMRanker (mcdm_ranker.py) and the request layer of complete_app.py.   *)
(*                                                                         *)
(* Text is modelled character by character: a Python str is the sequence   *)
(* of its character codes (ASCII).  Prices are counted in hundredths of a  *)
(* currency unit, scores as exact fractions.                               *)
(***************************************************************************)
EXTENDS Integers, Sequences, FiniteSets, TLC

\* ------------------------------------------------------------------ bounds

\* Longest listing list handed to the Deduplicator or the ranker.
MaxLen == 3

\* ------------------------------------------------------------------- text

Max(a, b) == IF a >= b THEN a ELSE b

Min(a, b) == IF a <= b THEN a ELSE b

Abs(a) == IF a >= 0 THEN a ELSE -a

Digits == 48..57

WordChars == (48..57) \cup (65..90) \cup (97..122) \cup {95}

WhiteSpace == {9, 10, 11, 12, 13, 32}

NonSpace == (0..127) \ WhiteSpace

\* str.lower()
\* The list with the elements f[1], ..., f[Len(f)], as an enumerated tuple
ListOf(f) == SubSeq(f, 1, Len(f))

Lower(s) == ListOf([i \in 1..Len(s) |-> IF s[i] >= 65 /\ s[i] <= 90 THEN s[i] + 32 ELSE s[i]])

StartsAt(sub, s, i) ==
    /\ i + Len(sub) - 1 <= Len(s)
    /\ \A k \in 1..Len(sub) : s[i + k - 1] = sub[k]

\* Python's `sub in s` for two strings
Contains(sub, s) == \E i \in 1..(Len(s) - Len(sub) + 1) : StartsAt(sub, s, i)

RECURSIVE RunEnd(_, _, _)
\* the index just past the maximal run of characters of cls that starts at i
RunEnd(cls, s, i) ==
    IF i <= Len(s) /\ s[i] \in cls THEN RunEnd(cls, s, i + 1) ELSE i

RECURSIVE Runs(_, _, _)
\* the maximal runs of characters of cls in s[i..], left to right:
\* re.findall(r'\w+', s) for WordChars, s.split() for NonSpace
Runs(cls, s, i) ==
    IF i > Len(s) THEN <<>>
    ELSE IF s[i] \in cls
         THEN LET j == RunEnd(cls, s, i)
              IN  <<SubSeq(s, i, j - 1)>> \o Runs(cls, s, j)
         ELSE Runs(cls, s, i + 1)

RECURSIVE StrLE(_, _)
\* a <= b in Python's ordering of strings
StrLE(a, b) ==
    IF a = <<>> THEN TRUE
    ELSE IF b = <<>> THEN FALSE
    ELSE IF a[1] < b[1] THEN TRUE
    ELSE IF a[1] > b[1] THEN FALSE
    ELSE StrLE(Tail(a), Tail(b))

RECURSIVE InsertToken(_, _)
InsertToken(t, sorted) ==
    IF sorted = <<>> THEN <<t>>
    ELSE IF StrLE(sorted[1], t) THEN <<sorted[1]>> \o InsertToken(t, Tail(sorted))
    ELSE <<t>> \o sorted

RECURSIVE SortTokens(_)
\* sorted(tokens)
SortTokens(tokens) ==
    IF tokens = <<>> THEN <<>>
    ELSE InsertToken(tokens[Len(tokens)], SortTokens(SubSeq(tokens, 1, Len(tokens) - 1)))

RECURSIVE JoinTokens(_)
\* " ".join(tokens)
JoinTokens(tokens) ==
    IF tokens = <<>> THEN <<>>
    ELSE IF Len(tokens) = 1 THEN tokens[1]
    ELSE tokens[1] \o <<32>> \o JoinTokens(Tail(tokens))

\* ------------------------------------------------------------ fuzzywuzzy

RECURSIVE LcsRow(_, _, _, _, _)
\* one row of the longest-common-subsequence table: cur[k] and prev[k] hold
\* column k - 1 (the test on Len only makes TLC compute the row so far)
LcsRow(c, b, prev, j, cur) ==
    IF j > Len(b) THEN cur
    ELSE LET v == IF c = b[j] THEN prev[j] + 1 ELSE Max(prev[j + 1], cur[j])
             next == Append(cur, v)
         IN  IF Len(next) = j + 1 THEN LcsRow(c, b, prev, j + 1, next) ELSE <<>>

RECURSIVE LcsRows(_, _, _, _)
LcsRows(a, b, i, prev) ==
    IF i > Len(a) THEN prev[Len(b) + 1]
    ELSE LET row == LcsRow(a[i], b, prev, 1, <<0>>)
         IN  IF Len(row) = Len(b) + 1 THEN LcsRows(a, b, i + 1, row) ELSE 0

LcsLength(a, b) == LcsRows(a, b, 1, [j \in 1..(Len(b) + 1) |-> 0])

\* int(round(num / den)), Python 3 rounding (a tie goes to the even integer)
RoundHalfEven(num, den) ==
    LET q == num \div den
        r == num % den
    IN  IF 2 * r > den THEN q + 1
        ELSE IF 2 * r < den THEN q
        ELSE IF q % 2 = 0 THEN q ELSE q + 1

\* fuzz.ratio(s1, s2): 100 for equal strings, 0 when one is empty, otherwise
\* intr(100 * ratio) with ratio = 2 * M / T, M the number of matched
\* characters (the longest common subsequence, python-Levenshtein's ratio)
\* and T the total length
fuzz_ratio(s1, s2) ==
    IF s1 = s2 THEN 100
    ELSE IF Len(s1) = 0 \/ Len(s2) = 0 THEN 0
    ELSE RoundHalfEven(200 * LcsLength(s1, s2), Len(s1) + Len(s2))

\* fuzzywuzzy's full_process and _process_and_sort: every \W character
\* becomes a blank, lower case, tokens sorted and joined by one blank
process_and_sort(s) == JoinTokens(SortTokens(Runs(WordChars, Lower(s), 1)))

\* fuzz.token_sort_ratio(s1, s2)
token_sort_ratio(s1, s2) == fuzz_ratio(process_and_sort(s1), process_and_sort(s2))

\* ---------------------------------------------------------------- listings

\* Product(link, price, currency, product_name, source): price in hundredths
Product(link, price, currency, name, source) ==
    [link |-> link, price |-> price, currency |-> currency,
     product_name |-> name, source |-> source]

\* Display names the sources return
NameIphone16 == <<105, 80, 104, 111, 110, 101, 32, 49, 54, 32, 80, 114, 111>>

NameIphone16Lower == <<105, 112, 104, 111, 110, 101, 32, 49, 54, 32, 112, 114, 111>>

NameIphone15 == <<105, 112, 104, 111, 110, 101, 32, 49, 53, 32, 112, 114, 111>>

NameIphone16Case == <<105, 80, 104, 111, 110, 101, 32, 49, 54, 32, 80, 114, 111, 32, 67, 97, 115, 101>>

NameGalaxy24 == <<71, 97, 108, 97, 120, 121, 32, 83, 50, 52>>

NameGalaxy25 == <<71, 97, 108, 97, 120, 121, 32, 83, 50, 53>>

\* Listings handed to the Deduplicator
ListingPool ==
    << Product("u1", 10000, "USD", NameIphone16, "eBay.com"),
       \* 2: the name of ListingPool[1] in lower case, 2% cheaper
       Product("u2", 9800, "USD", NameIphone16Lower, "Walmart"),
       \* 3: the name of ListingPool[1], 8% cheaper
       Product("u3", 9200, "USD", NameIphone16, "Walmart"),
       \* 4: the name of ListingPool[1], exactly 5% cheaper
       Product("u4", 9500, "USD", NameIphone16Lower, "eBay.com"),
       \* 5: another model at the price of ListingPool[1]: the names are 92 similar
       Product("u5", 10000, "USD", NameIphone15, "Walmart"),
       Product("u6", 10000, "INR", NameIphone15, "eBay.com"),
       \* 7: the name of ListingPool[1] in another currency, at a far price
       Product("u7", 500000, "INR", NameIphone16Lower, "eBay.com"),
       \* 8: two names that are exactly 90 similar, at one price
       Product("u8", 10000, "USD", NameGalaxy24, "eBay.com"),
       Product("u9", 10000, "USD", NameGalaxy25, "Walmart"),
       \* 10: two prices below one currency unit, 9% apart
       Product("u10", 40, "USD", NameGalaxy24, "Walmart"),
       Product("u11", 44, "USD", NameGalaxy24, "eBay.com") >>

\* ------------------------------------------------------------ Deduplicator

\* fuzz.ratio(product.product_name.lower(), existing.product_name.lower())
name_similarity(product, existing) ==
    fuzz_ratio(Lower(product.product_name), Lower(existing.product_name))

\* Fault: the price test admits a difference of exactly 5%
PriceDiffAtMost5Percent(product, existing) ==
    100 * Abs(product.price - existing.price)
        <= 5 * Max(Max(product.price, existing.price), 100)

\* price_diff < 0.05, with
\* price_diff = abs(product.price - existing.price) / max(product.price, existing.price, 1)
PriceDiffBelow5Percent(product, existing) ==
    100 * Abs(product.price - existing.price)
        < 5 * Max(Max(product.price, existing.price), 100)

\* Fault: the name threshold of the same-currency rule serves both rules
IsDuplicatePairOneThreshold(product, existing) ==
    IF product.currency = existing.currency
    THEN name_similarity(product, existing) > 90 /\ PriceDiffBelow5Percent(product, existing)
    ELSE name_similarity(product, existing) > 90

\* the body of the inner loop of _remove_duplicates: is product a duplicate of
\* the accepted listing existing
IsDuplicatePair(product, existing) ==
    IF product.currency = existing.currency
    THEN name_similarity(product, existing) > 90 /\ PriceDiffBelow5Percent(product, existing)
    ELSE name_similarity(product, existing) > 95

RECURSIVE DedupLoopLastAccepted(_, _, _)
\* Fault: a listing is compared with the last accepted listing only
DedupLoopLastAccepted(products, i, unique) ==
    IF i > Len(products) THEN unique
    ELSE DedupLoopLastAccepted(products, i + 1,
             IF unique # <<>> /\ IsDuplicatePair(products[i], unique[Len(unique)])
             THEN unique ELSE Append(unique, products[i]))

RECURSIVE DedupLoopPrevious(_, _, _)
\* Fault: a listing is compared with the listing before it in the input,
\* accepted or not
DedupLoopPrevious(products, i, unique) ==
    IF i > Len(products) THEN unique
    ELSE DedupLoopPrevious(products, i + 1,
             IF i > 1 /\ IsDuplicatePair(products[i], products[i - 1])
             THEN unique ELSE Append(unique, products[i]))

RECURSIVE DedupLoop(_, _, _)
\* the outer loop of _remove_duplicates, at input index i with the accepted
\* listings unique
DedupLoop(products, i, unique) ==
    IF i > Len(products) THEN unique
    ELSE LET is_duplicate ==
                 \E k \in 1..Len(unique) : IsDuplicatePair(products[i], unique[k])
         IN  DedupLoop(products, i + 1,
                       IF is_duplicate THEN unique ELSE Append(unique, products[i]))

remove_duplicates(products) == DedupLoop(products, 1, <<>>)


\* ---------------------------------------------------------- regular expressions

\* \b at index i of s: exactly one of s[i - 1], s[i] is a word character
IsBoundary(s, i) ==
    LET before == i > 1 /\ i - 1 <= Len(s) /\ s[i - 1] \in WordChars
        after == i >= 1 /\ i <= Len(s) /\ s[i] \in WordChars
    IN  before # after

RECURSIVE MatchFrom(_, _, _, _), MatchGreedy(_, _, _, _, _)
\* Matches the elements k.. of pattern pat on s from index i: the index just
\* past the match, or 0 when there is none.  An element is <<"b">> for \b,
\* <<"d+">> for \d+, <<"s*">> for \s*, or <<"lit", text>>.
MatchFrom(pat, k, s, i) ==
    IF k > Len(pat) THEN i
    ELSE LET e == pat[k]
         IN  IF e[1] = "b"
             THEN IF IsBoundary(s, i) THEN MatchFrom(pat, k + 1, s, i) ELSE 0
             ELSE IF e[1] = "lit"
             THEN IF StartsAt(e[2], s, i)
                  THEN MatchFrom(pat, k + 1, s, i + Len(e[2]))
                  ELSE 0
             ELSE IF e[1] = "d+"
             THEN MatchGreedy(pat, k, s, RunEnd(Digits, s, i), i + 1)
             ELSE MatchGreedy(pat, k, s, RunEnd(WhiteSpace, s, i), i)

\* a greedy repetition that may end anywhere in lo..j: the longest first
MatchGreedy(pat, k, s, j, lo) ==
    IF j < lo THEN 0
    ELSE LET r == MatchFrom(pat, k + 1, s, j)
         IN  IF r # 0 THEN r ELSE MatchGreedy(pat, k, s, j - 1, lo)

RECURSIVE FindAllFrom(_, _, _)
\* re.findall(pat, s): the matched texts, leftmost first, none overlapping
FindAllFrom(pat, s, i) ==
    IF i > Len(s) THEN <<>>
    ELSE LET e == MatchFrom(pat, 1, s, i)
         IN  IF e > i
             THEN <<SubSeq(s, i, e - 1)>> \o FindAllFrom(pat, s, e)
             ELSE FindAllFrom(pat, s, i + 1)

findall(pat, s) == FindAllFrom(pat, s, 1)

\* ------------------------------------------------------------- MCDMRanker

\* self.source_reliability, in hundredths
source_reliability ==
    [s \in {"Amazon.in", "Flipkart", "Walmart", "eBay.com", "eBay.in", "Snapdeal", "Shopsy"} |->
        CASE s = "Amazon.in" -> 95
          [] s = "Flipkart" -> 90
          [] s = "Walmart" -> 95
          [] s = "eBay.com" -> 85
          [] s = "eBay.in" -> 85
          [] s = "Snapdeal" -> 80
          [] s = "Shopsy" -> 75]

\* Fault: a source that is not in the table has no trust at all
ReliabilityZeroDefault(source) ==
    IF source \in DOMAIN source_reliability THEN source_reliability[source] ELSE 0

\* self.source_reliability.get(source, 0.5), in hundredths
Reliability(source) ==
    IF source \in DOMAIN source_reliability THEN source_reliability[source] ELSE 50

stop_words ==
    {<<116, 104, 101>>, <<97>>, <<97, 110>>, <<97, 110, 100>>, <<111, 114>>, <<98, 117, 116>>, <<105, 110>>, <<111, 110>>, <<97, 116>>, <<116, 111>>,
     <<102, 111, 114>>, <<111, 102>>, <<119, 105, 116, 104>>, <<98, 121>>}

RECURSIVE SelectSeq2(_, _)
\* the key terms among terms, in order
SelectSeq2(terms, i) ==
    IF i > Len(terms) THEN <<>>
    ELSE (IF Len(terms[i]) > 2 /\ terms[i] \notin stop_words THEN <<terms[i]>> ELSE <<>>)
         \o SelectSeq2(terms, i + 1)

\* _extract_key_terms(query)
extract_key_terms(query) == SelectSeq2(Runs(WordChars, Lower(query), 1), 1)

model_patterns ==
    << << <<"b">>, <<"d+">>, <<"s*">>, <<"lit", <<112, 114, 111>>>>, <<"s*">>, <<"lit", <<109, 97, 120>>>>, <<"b">> >>,
       << <<"b">>, <<"d+">>, <<"s*">>, <<"lit", <<112, 114, 111>>>>, <<"b">> >>,
       << <<"b">>, <<"d+">>, <<"s*">>, <<"lit", <<112, 108, 117, 115>>>>, <<"b">> >>,
       << <<"b">>, <<"d+">>, <<"lit", <<114>>>>, <<"b">> >>,
       << <<"b">>, <<"lit", <<105, 112, 104, 111, 110, 101>>>>, <<"s*">>, <<"d+">>, <<"b">> >>,
       << <<"b">>, <<"lit", <<103, 97, 108, 97, 120, 121>>>>, <<"s*">>, <<"lit", <<115>>>>, <<"d+">>, <<"b">> >> >>

\* Fault: a model in the query and a model in the name suffice, equal or not
is_exact_model_match_any_model(product_name, query) ==
    \E p \in 1..Len(model_patterns) :
        /\ Len(findall(model_patterns[p], Lower(query))) > 0
        /\ Len(findall(model_patterns[p], Lower(product_name))) > 0

\* _is_exact_model_match(product_name, query)
is_exact_model_match(product_name, query) ==
    \E p \in 1..Len(model_patterns) :
        LET query_matches == findall(model_patterns[p], Lower(query))
            product_matches == findall(model_patterns[p], Lower(product_name))
        IN  \E q \in 1..Len(query_matches) :
                \E m \in 1..Len(product_matches) : query_matches[q] = product_matches[m]

\* the category table of _calculate_category_alignment, in the order in
\* which the dict is walked
categories ==
    << <<"phone", <<<<105, 112, 104, 111, 110, 101>>, <<112, 104, 111, 110, 101>>, <<109, 111, 98, 105, 108, 101>>, <<115, 109, 97, 114, 116, 112, 104, 111, 110, 101>>, <<103, 97, 108, 97, 120, 121>>, <<112, 105, 120, 101, 108>>, <<111, 110, 101, 112, 108, 117, 115>>>> >>,
       <<"laptop", <<<<108, 97, 112, 116, 111, 112>>, <<109, 97, 99, 98, 111, 111, 107>>, <<116, 104, 105, 110, 107, 112, 97, 100>>, <<110, 111, 116, 101, 98, 111, 111, 107>>, <<99, 111, 109, 112, 117, 116, 101, 114>>>> >>,
       <<"tablet", <<<<105, 112, 97, 100>>, <<116, 97, 98, 108, 101, 116>>, <<107, 105, 110, 100, 108, 101>>>> >>,
       <<"audio", <<<<104, 101, 97, 100, 112, 104, 111, 110, 101, 115>>, <<101, 97, 114, 98, 117, 100, 115>>, <<115, 112, 101, 97, 107, 101, 114>>, <<97, 105, 114, 112, 111, 100, 115>>>> >>,
       <<"accessory", <<<<99, 97, 115, 101>>, <<99, 111, 118, 101, 114>>, <<99, 104, 97, 114, 103, 101, 114>>, <<99, 97, 98, 108, 101>>, <<115, 99, 114, 101, 101, 110, 32, 112, 114, 111, 116, 101, 99, 116, 111, 114>>, <<115, 105, 108, 105, 99, 111, 110>>, <<108, 101, 97, 116, 104, 101, 114>>>> >> >>

\* any(keyword in text for keyword in keywords)
AnyKeywordIn(keywords, text) == \E k \in 1..Len(keywords) : Contains(keywords[k], text)

\* the first category one of whose keywords occurs in query: its index in
\* categories, 0 when there is none
QueryCategory(query) ==
    LET hits == {c \in 1..Len(categories) : AnyKeywordIn(categories[c][2], query)}
    IN  IF hits = {} THEN 0 ELSE CHOOSE c \in hits : \A d \in hits : c <= d

\* Fault: the alignment has three values only: 0.1, 1.0 and the neutral 0.5
calculate_category_alignment_three(product_name, query) ==
    LET query_category == QueryCategory(query)
    IN  IF query_category = 0 THEN 5
        ELSE IF /\ categories[query_category][1] \in {"phone", "laptop", "tablet"}
                /\ AnyKeywordIn(categories[5][2], product_name)
             THEN 1
        ELSE IF AnyKeywordIn(categories[query_category][2], product_name) THEN 10
        ELSE 5

\* _calculate_category_alignment(product_name, query), in tenths
calculate_category_alignment(product_name, query) ==
    LET query_category == QueryCategory(query)
    IN  IF query_category = 0 THEN 5
        ELSE LET category_keywords == categories[query_category][2]
                 product_matches_category == AnyKeywordIn(category_keywords, product_name)
                 is_accessory == AnyKeywordIn(categories[5][2], product_name)
             IN  IF categories[query_category][1] \in {"phone", "laptop", "tablet"}
                 THEN IF is_accessory THEN 1
                      ELSE IF product_matches_category THEN 10
                      ELSE 3
                 ELSE IF product_matches_category THEN 10
                 ELSE IF is_accessory /\ categories[query_category][1] # "accessory" THEN 2
                 ELSE 5

\* Relevance is counted in units of 1 / RelDen
RelDen == 400 * 300

\* the number of terms t of query_terms for which Test(t) holds, as
\* sum(1 for term in query_terms if ...)
CountTerms(query_terms, hit) == Cardinality({k \in 1..Len(query_terms) : hit[k]})

\* exact_matches = sum(1 for term in query_terms if term in product_lower)
exact_matches(product_lower, query_terms) ==
    CountTerms(query_terms,
               [k \in 1..Len(query_terms) |-> Contains(query_terms[k], product_lower)])

\* partial_matches counting only the parts of more than three characters
partial_matches_long_parts(product_lower, query_terms) ==
    CountTerms(query_terms,
               [k \in 1..Len(query_terms) |->
                   LET parts == Runs(NonSpace, query_terms[k], 1)
                   IN  \E p \in 1..Len(parts) :
                           Len(parts[p]) > 3 /\ Contains(parts[p], product_lower)])

\* partial_matches = sum(1 for term in query_terms
\*                       if any(part in product_lower for part in term.split()))
partial_matches(product_lower, query_terms) ==
    CountTerms(query_terms,
               [k \in 1..Len(query_terms) |->
                   LET parts == Runs(NonSpace, query_terms[k], 1)
                   IN  \E p \in 1..Len(parts) : Contains(parts[p], product_lower)])

\* calculate_relevance_score(product_name, search_query), in units of 1 / RelDen
calculate_relevance_score(product_name, search_query) ==
    LET product_lower == Lower(product_name)
        query_lower == Lower(search_query)
        query_terms == extract_key_terms(query_lower)
        n == Len(query_terms)
        \* fuzzy_score * 0.25
        fuzzy == (RelDen \div 400) * token_sort_ratio(product_lower, query_lower)
        \* exact_score * 0.40, with exact_score = min(exact_matches / n, 1.0)
        \* and the model bonus min(exact_score + 0.5, 1.0)
        exact_base == IF n > 0 THEN Min(((RelDen \div 5) * 2 * exact_matches(product_lower, query_terms)) \div n, (RelDen \div 5) * 2) ELSE 0
        exact == IF is_exact_model_match(product_lower, query_lower)
                 THEN Min(exact_base + RelDen \div 5, (RelDen \div 5) * 2)
                 ELSE exact_base
        \* partial_score * 0.10
        partial == IF n > 0 THEN Min(((RelDen \div 10) * partial_matches(product_lower, query_terms)) \div n, RelDen \div 10) ELSE 0
        \* category_score * 0.25
        category == (RelDen \div 40) * calculate_category_alignment(product_lower, query_lower)
    IN  fuzzy + exact + partial + category

\* Fault: weights that sum to 1.05
weights_sum_105 == [relevance |-> 80, price |-> 20, source_reliability |-> 5]

\* self.weights, in hundredths
weights == [relevance |-> 75, price |-> 20, source_reliability |-> 5]

\* Fault: an instance whose weights sum to 1.25
MCDMRankerUnbalanced ==
    [weights |-> [relevance |-> 100, price |-> 20, source_reliability |-> 5],
     source_reliability |-> source_reliability]

\* MCDMRanker(): the tables of a new instance
MCDMRanker == [weights |-> weights, source_reliability |-> source_reliability]

\* _is_accessory_product(product_name)
is_accessory_product(product_name) ==
    AnyKeywordIn(<<<<99, 97, 115, 101>>, <<99, 111, 118, 101, 114>>, <<99, 104, 97, 114, 103, 101, 114>>, <<99, 97, 98, 108, 101>>, <<115, 99, 114, 101, 101, 110, 32, 112, 114, 111, 116, 101, 99, 116, 111, 114>>,
                   <<115, 105, 108, 105, 99, 111, 110>>, <<108, 101, 97, 116, 104, 101, 114>>, <<116, 101, 109, 112, 101, 114, 101, 100, 32, 103, 108, 97, 115, 115>>>>, product_name)

\* Fault: the query is an accessory query when category alignment puts it in
\* the accessory category
is_searching_for_accessory_by_category(query) ==
    LET query_category == QueryCategory(Lower(query))
    IN  query_category # 0 /\ categories[query_category][1] = "accessory"

\* _is_searching_for_accessory(query)
is_searching_for_accessory(query) ==
    AnyKeywordIn(<<<<99, 97, 115, 101>>, <<99, 111, 118, 101, 114>>, <<99, 104, 97, 114, 103, 101, 114>>, <<99, 97, 98, 108, 101>>, <<115, 99, 114, 101, 101, 110, 32, 112, 114, 111, 116, 101, 99, 116, 111, 114>>>>, Lower(query))

RECURSIVE SeqMin(_), SeqMax(_)
SeqMin(s) == IF Len(s) = 1 THEN s[1] ELSE Min(s[1], SeqMin(Tail(s)))

SeqMax(s) == IF Len(s) = 1 THEN s[1] ELSE Max(s[1], SeqMax(Tail(s)))

\* Fault: prices that are all equal score 1.0
normalize_price_equal_full(prices) ==
    IF Len(prices) = 0 \/ Cardinality({prices[i] : i \in 1..Len(prices)}) = 1
    THEN ListOf([i \in 1..Len(prices) |-> <<1, 1>>])
    ELSE ListOf([i \in 1..Len(prices) |->
                    <<SeqMax(prices) - prices[i], SeqMax(prices) - SeqMin(prices)>>])

\* Fault: the score is not inverted, the highest price scores 1.0
normalize_price_not_inverted(prices) ==
    IF Len(prices) = 0 \/ Cardinality({prices[i] : i \in 1..Len(prices)}) = 1
    THEN ListOf([i \in 1..Len(prices) |-> <<1, 2>>])
    ELSE ListOf([i \in 1..Len(prices) |->
                    <<prices[i] - SeqMin(prices), SeqMax(prices) - SeqMin(prices)>>])

\* normalize_price_score(prices): each score is the fraction <<num, den>>
normalize_price_score(prices) ==
    IF Len(prices) = 0 \/ Cardinality({prices[i] : i \in 1..Len(prices)}) = 1
    THEN ListOf([i \in 1..Len(prices) |-> <<1, 2>>])
    ELSE LET min_price == SeqMin(prices)
             max_price == SeqMax(prices)
             price_range == max_price - min_price
         IN  ListOf([i \in 1..Len(prices) |->
                        IF price_range = 0 THEN <<1, 2>>
                        ELSE <<price_range - (prices[i] - min_price), price_range>>])

\* Product.to_dict()
to_dict(p) ==
    [link |-> p.link, price |-> p.price, currency |-> p.currency,
     productName |-> p.product_name, source |-> p.source]

\* Search queries of the callers
QueryIphone16 == <<105, 80, 104, 111, 110, 101, 32, 49, 54, 32, 80, 114, 111>>

QueryIphoneCase == <<105, 112, 104, 111, 110, 101, 32, 99, 97, 115, 101>>

QueryGalaxy == <<103, 97, 108, 97, 120, 121>>

QueryPool == {QueryIphone16, QueryIphoneCase, QueryGalaxy}

\* The three name-and-query computations of the first pass of
\* calculate_mcdm_scores
Criteria(name, query) ==
    [relevance |-> calculate_relevance_score(name, query),
     has_exact_match |-> is_exact_model_match(Lower(name), Lower(query)),
     is_accessory |-> is_accessory_product(Lower(name))]

\* the first pass: criteria_matrix
criteria_matrix(products, search_query) ==
    ListOf([i \in 1..Len(products) |->
        LET c == Criteria(products[i].productName, search_query)
        IN  [relevance |-> c.relevance,
             price_raw |-> products[i].price,
             source_reliability |-> Reliability(products[i].source),
             has_exact_match |-> c.has_exact_match,
             is_accessory |-> c.is_accessory]])

\* Fault: rows with an exact match are raised instead of the others lowered
AdjustedRelevanceBoost(criteria, search_query) ==
    IF criteria.has_exact_match THEN (criteria.relevance * 12) \div 10
    ELSE criteria.relevance

\* the second pass on one row: criteria['relevance'] *= 0.8, *= 0.3
AdjustedRelevance(criteria, search_query) ==
    LET r1 == IF ~criteria.has_exact_match
              THEN (criteria.relevance * 8) \div 10
              ELSE criteria.relevance
    IN  IF criteria.is_accessory /\ ~is_searching_for_accessory(search_query)
        THEN (r1 * 3) \div 10
        ELSE r1

\* the second pass over the rows: it runs when some row has an exact match
AdjustRows(matrix, search_query, has_exact_matches) ==
    ListOf([i \in 1..Len(matrix) |->
            IF has_exact_matches
            THEN [matrix[i] EXCEPT !.relevance = AdjustedRelevance(matrix[i], search_query)]
            ELSE matrix[i]])

\* has_exact_matches = any(criteria['has_exact_match'] for criteria in criteria_matrix)
HasExactMatches(matrix) == \E i \in 1..Len(matrix) : matrix[i].has_exact_match

\* Fault: the second pass runs whether or not a row has an exact match
AdjustAllAlways(matrix, search_query) ==
    AdjustRows(matrix, search_query, TRUE)

\* the second pass
AdjustAll(matrix, search_query) ==
    AdjustRows(matrix, search_query, HasExactMatches(matrix))

\* criteria_matrix after the second pass
adjusted_matrix(products, search_query) ==
    AdjustAll(criteria_matrix(products, search_query), search_query)

\* The weighted score of one row.  It is the sum of two fractions:
\* fixed / (100 * 100 * RelDen), from relevance and source reliability, and
\* price[1] / price[2], from the normalized price.
WeightedScore(criteria, normalized_price) ==
    [fixed |-> criteria.relevance * weights.relevance * 100
               + criteria.source_reliability * weights.source_reliability * RelDen,
     price |-> <<normalized_price[1] * weights.price, normalized_price[2] * 100>>]

RECURSIVE FracCmp(_, _, _, _)
\* the sign of a / b - c / d for a, c >= 0 and b, d > 0, without products
FracCmp(a, b, c, d) ==
    LET qa == a \div b
        qc == c \div d
        ra == a % b
        rc == c % d
    IN  IF qa > qc THEN 1
        ELSE IF qa < qc THEN -1
        ELSE IF ra = 0 /\ rc = 0 THEN 0
        ELSE IF ra = 0 THEN -1
        ELSE IF rc = 0 THEN 1
        ELSE -FracCmp(b, ra, d, rc)

\* the sign of x - y for two weighted scores of one result set (their price
\* fractions have one denominator)
ScoreCmp(x, y) ==
    LET df == x.fixed - y.fixed
        dp == y.price[1] - x.price[1]
        fd == 100 * 100 * RelDen
        pd == x.price[2]
    IN  IF df >= 0 /\ dp <= 0 THEN (IF df = 0 /\ dp = 0 THEN 0 ELSE 1)
        ELSE IF df <= 0 /\ dp >= 0 THEN -1
        ELSE IF df > 0 THEN FracCmp(df, fd, dp, pd)
        ELSE -FracCmp(-df, fd, -dp, pd)

RECURSIVE InsertRankedBeforeTies(_, _)
\* Fault: x goes before the products whose score equals its own
InsertRankedBeforeTies(x, sorted) ==
    IF sorted = <<>> THEN <<x>>
    ELSE IF ScoreCmp(sorted[1].mcdm_score, x.mcdm_score) > 0
         THEN <<sorted[1]>> \o InsertRankedBeforeTies(x, Tail(sorted))
         ELSE <<x>> \o sorted

RECURSIVE InsertRanked(_, _)
\* x put behind every product of sorted whose score is not below its own
InsertRanked(x, sorted) ==
    IF sorted = <<>> THEN <<x>>
    ELSE IF ScoreCmp(sorted[1].mcdm_score, x.mcdm_score) >= 0
         THEN <<sorted[1]>> \o InsertRanked(x, Tail(sorted))
         ELSE <<x>> \o sorted

RECURSIVE SortRanked(_, _, _)
\* ranked_products.sort(key=lambda x: x['mcdm_score'], reverse=True): the
\* list sort is stable, also with reverse=True
SortRanked(products, i, sorted) ==
    IF i > Len(products) THEN sorted
    ELSE SortRanked(products, i + 1, InsertRanked(products[i], sorted))

\* the third pass: the copies of the products with mcdm_score and
\* relevance_score attached
ScoreRows(products, matrix, normalized_prices) ==
    ListOf([i \in 1..Len(products) |->
            [link |-> products[i].link,
             price |-> products[i].price,
             currency |-> products[i].currency,
             productName |-> products[i].productName,
             source |-> products[i].source,
             mcdm_score |-> WeightedScore(matrix[i], normalized_prices[i]),
             relevance_score |-> matrix[i].relevance]])

\* the prices of the products, as the first pass collects them in price_raw
PricesIn(products) == ListOf([i \in 1..Len(products) |-> products[i].price])

\* prices = [c['price_raw'] for c in criteria_matrix]
PricesOf(matrix) == ListOf([i \in 1..Len(matrix) |-> matrix[i].price_raw])

ScoredFrom(products, matrix) ==
    ScoreRows(products, matrix, normalize_price_score(PricesOf(matrix)))

ScoredCopies(products, search_query) ==
    ScoredFrom(products, adjusted_matrix(products, search_query))

\* Fault: the scores are set on the dicts handed in
products_scored_in_place(products, search_query) ==
    IF Len(products) = 0 THEN products ELSE ScoredCopies(products, search_query)

\* The products handed to calculate_mcdm_scores, as they are after the call:
\* the scores are set on product_copy = product.copy(), the dicts of the
\* caller are left as they were
products_after_scoring(products, search_query) == products

\* calculate_mcdm_scores(products, search_query)
calculate_mcdm_scores(products, search_query) ==
    IF Len(products) = 0 THEN products
    ELSE SortRanked(ScoredCopies(products, search_query), 1, <<>>)

RECURSIVE FilterFrom(_, _, _)
FilterFrom(products, min_relevance, i) ==
    IF i > Len(products) THEN <<>>
    ELSE (IF products[i].relevance_score >= min_relevance THEN <<products[i]>> ELSE <<>>)
         \o FilterFrom(products, min_relevance, i + 1)

\* Fault: the floor is the default 0.3 whatever min_relevance is
filter_default_floor(products, min_relevance) ==
    FilterFrom(products, (RelDen \div 10) * 3, 1)

\* filter_low_relevance(products, min_relevance), min_relevance in units of
\* 1 / RelDen
filter_low_relevance(products, min_relevance) == FilterFrom(products, min_relevance, 1)

\* Product dicts handed to the ranker
RankPool ==
    << to_dict(ListingPool[1]),
       \* 2: ListingPool[1] found a second time, under another link
       to_dict(Product("u1b", 10000, "USD", NameIphone16, "eBay.com")),
       to_dict(Product("u12", 500, "USD", NameIphone16Case, "Walmart")),
       \* 4: another model, 8% cheaper
       to_dict(Product("u13", 9200, "USD", NameIphone15, "Walmart")),
       to_dict(ListingPool[8]),
       \* 6: a listing in another currency, from a source that is not in the table
       to_dict(Product("k1", 9900, "GBP", NameIphone16, "eBay.co.uk")) >>

\* The query and the three products of test_mcdm_detailed
QueryIphone16ProMax == <<105, 80, 104, 111, 110, 101, 32, 49, 54, 32, 80, 114, 111, 32, 77, 97, 120>>

\* the products A, B and C of the test
ScenarioPool ==
    << to_dict(Product("a", 13590000, "INR",
                       <<65, 112, 112, 108, 101, 32, 105, 80, 104, 111, 110, 101, 32, 49, 54, 32, 80, 114, 111, 32, 77, 97, 120, 32, 40, 78, 97, 116, 117, 114, 97, 108, 32, 84, 105, 116, 97, 110, 105, 117, 109, 44, 32, 50, 53, 54, 32, 71, 66, 41>>, "Amazon.in")),
       to_dict(Product("b", 49900, "INR", <<105, 80, 104, 111, 110, 101, 32, 49, 54, 32, 80, 114, 111, 32, 77, 97, 120, 32, 67, 97, 115, 101, 32, 67, 111, 118, 101, 114, 32, 83, 105, 108, 105, 99, 111, 110>>, "Snapdeal")),
       to_dict(Product("c", 12000000, "INR", <<65, 112, 112, 108, 101, 32, 105, 80, 104, 111, 110, 101, 32, 49, 53, 32, 80, 114, 111, 32, 77, 97, 120, 32, 50, 53, 54, 71, 66>>, "Flipkart")) >>

\* Queries of each kind the ranker tells apart: a main-product query, a query
\* with a phone keyword and an accessory keyword, an audio query, an accessory
\* query, and a query with no category keyword and no key term
RelevanceQueries ==
    {QueryIphone16ProMax, <<105, 112, 104, 111, 110, 101, 32, 49, 54, 32, 112, 114, 111, 32, 109, 97, 120, 32, 99, 97, 115, 101>>, <<97, 105, 114, 112, 111, 100, 115>>, <<115, 105, 108, 105, 99, 111, 110, 32, 99, 111, 118, 101, 114>>, <<116, 118, 32, 52, 107>>}

\* A phone, an accessory, and a product of another main category
RelevancePool ==
    {ScenarioPool[1], ScenarioPool[2], to_dict(Product("d", 9999900, "INR", <<77, 97, 99, 66, 111, 111, 107, 32, 65, 105, 114, 32, 49, 51>>, "Flipkart"))}


\* ------------------------------------------------- the Source Dispatcher

\* session.get(search_url, headers=headers, timeout=15), in seconds
TIMEOUT == 15

\* Config.REQUEST_TIMEOUT, in seconds
REQUEST_TIMEOUT == 30

\* Config.MAX_CONCURRENT_REQUESTS: the workers of the executor
MAX_CONCURRENT_REQUESTS == 5

\* data.get('max_results', 50)
DEFAULT_MAX_RESULTS == 50

\* min_relevance=0.2 of search_products, in units of 1 / RelDen
SEARCH_MIN_RELEVANCE == (RelDen \div 10) * 2

\* _initialize_scrapers(): the names of the scrapers of each country
scrapers ==
    [c \in {"US", "IN", "UK", "DE", "CA"} |->
        CASE c = "US" -> <<"eBay.com", "Walmart">>
          [] c = "IN" -> <<"Amazon.in", "Flipkart", "eBay.in", "Snapdeal", "Shopsy">>
          [] c = "UK" -> <<"eBay.co.uk">>
          [] c = "DE" -> <<"eBay.de">>
          [] c = "CA" -> <<"eBay.ca">>]

\* self.scrapers.get(country.upper(), self.scrapers.get("US", []))
country_scrapers(country) ==
    IF country \in DOMAIN scrapers THEN scrapers[country] ELSE scrapers["US"]

\* The listing lists _parse_results may extract from the page of a source
Pages(source) ==
    CASE source = "eBay.com" -> {<<>>, <<ListingPool[1]>>, <<ListingPool[8], ListingPool[4]>>}
      [] source = "Walmart" -> {<<>>, <<ListingPool[2]>>, <<ListingPool[9], ListingPool[3]>>}
      [] source = "eBay.co.uk" -> {<<>>, <<Product("k1", 9900, "GBP", NameIphone16, "eBay.co.uk")>>}
      [] OTHER -> {<<>>}

\* What a site may answer before the timeout: a page with status 200,
\* another status, or a failure of the connection or of the parse
Replies(source) ==
    {[kind |-> "http", status |-> 200, page |-> p] : p \in Pages(source)}
        \cup {[kind |-> "http", status |-> 503, page |-> <<>>],
              [kind |-> "error", status |-> 0, page |-> <<>>]}

\* What the local HTML file of a source may hold
LocalFiles(source) ==
    {[kind |-> "file", page |-> p] : p \in Pages(source)}
        \cup {[kind |-> "missing", page |-> <<>>], [kind |-> "error", page |-> <<>>]}

Returned(list) == [raised |-> FALSE, value |-> list]

Raised == [raised |-> TRUE, value |-> <<>>]

\* Fault: a site that answers with another status than 200 counts as having
\* served a listing
search_online_fallback_page(reply) ==
    IF reply.kind \in {"timeout", "error"} THEN Raised
    ELSE IF reply.status = 200 THEN Returned(reply.page)
    ELSE Returned(<<ListingPool[5]>>)

\* _search_online(session, query) on the reply of the site; no reply within
\* TIMEOUT raises asyncio.TimeoutError
search_online(reply) ==
    IF reply.kind = "timeout" \/ reply.kind = "error" THEN Raised
    ELSE IF reply.status = 200 THEN Returned(reply.page)
    ELSE Returned(<<>>)

\* _parse_local_html(query)
parse_local_html(file) ==
    IF file.kind = "missing" THEN Returned(<<>>)
    ELSE IF file.kind = "error" THEN Returned(<<>>)
    ELSE Returned(file.page)

\* Fault: a retrieval that raised returns a listing kept from before
search_default_page(attempt) == IF attempt.raised THEN Returned(<<ListingPool[1]>>) ELSE attempt

\* search(session, query, use_local): try ... except Exception: return []
search(attempt) == IF attempt.raised THEN Returned(<<>>) ELSE attempt

\* the outcome of a retrieval, for the log
OutcomeOf(reply) ==
    IF reply.kind \in {"http", "file"}
    THEN IF reply.kind = "file" \/ reply.status = 200 THEN "listings" ELSE "http_error"
    ELSE reply.kind

\* Fault: the results are in the order in which the tasks ended
gather_as_completed(results, order) ==
    IF Len(order) = Len(results)
    THEN ListOf([i \in 1..Len(results) |-> results[order[i]]])
    ELSE results

\* results = await asyncio.gather(*tasks, return_exceptions=True): the result
\* of each task at the index of the task, whatever the order they ended in
gather(results, order) == results

\* Fault: all_products = result, each list replaces the ones before it
CombineLast(results) ==
    IF Len(results) = 0 \/ results[Len(results)].raised THEN <<>>
    ELSE results[Len(results)].value

RECURSIVE CombineFrom(_, _)
\* the loop over the results of asyncio.gather(*tasks, return_exceptions=True):
\* a list extends all_products, an exception is logged
CombineFrom(results, i) ==
    IF i > Len(results) THEN <<>>
    ELSE (IF results[i].raised THEN <<>> ELSE results[i].value) \o CombineFrom(results, i + 1)

Combine(results) == CombineFrom(results, 1)

\* product_dicts = [product.to_dict() for product in unique_products]
DictsOf(products) == ListOf([i \in 1..Len(products) |-> to_dict(products[i])])

\* search_products after the join: dedup, rank, filter
RankAndFilter(all_products, query) ==
    filter_low_relevance(
        calculate_mcdm_scores(DictsOf(remove_duplicates(all_products)), query),
        SEARCH_MIN_RELEVANCE)

\* Fault: the list of tasks is built twice, each search is called twice
InvokeAllTwice(calls) == [s \in DOMAIN calls |-> calls[s] + 2]

\* tasks = [scraper.search(session, query, use_local) for scraper in
\* country_scrapers]: one call of search per scraper
InvokeAll(calls) == [s \in DOMAIN calls |-> calls[s] + 1]

\* Fault: the join returns once the first task has ended
GatherFirst(states) == \E s \in DOMAIN states : states[s] = "done"

\* asyncio.gather returns once every task has ended
GatherDone(states) == \A s \in DOMAIN states : states[s] = "done"

\* the timer of a call that began elapsed seconds ago has expired
TimerExpired(elapsed) == elapsed >= TIMEOUT

\* Fault: one timer serves the whole fan-out, and ends every pending task
AfterTimeoutAll(states, s) == [t \in DOMAIN states |-> "done"]

\* the task states after the timer of task s has expired: that call alone
\* raises asyncio.TimeoutError
AfterTimeout(states, s) == [states EXCEPT ![s] = "done"]

\* products[:max_results]
Truncate(products, max_results) ==
    SubSeq(products, 1, Min(Len(products), max_results))

\* the body of the response once future.result returned
OkResponse(products) == [status |-> 200, products |-> Truncate(products, DEFAULT_MAX_RESULTS)]

\* Fault: the error response carries a listing
ErrorResponsePartial(status) == [status |-> status, products |-> <<RankPool[1]>>]

\* the body of the response once future.result(timeout=...) raised: 408 where
\* the exception is asyncio.TimeoutError (Python 3.11 on), 500 otherwise
ErrorResponse(status) == [status |-> status, products |-> <<>>]

\* ------------------------------------------------------------ the scrapers

RECURSIVE DigitsValue(_)
\* float(text) for a text of digits, as a whole number
DigitsValue(text) ==
    IF text = <<>> THEN 0
    ELSE DigitsValue(SubSeq(text, 1, Len(text) - 1)) * 10 + (text[Len(text)] - 48)

\* _clean_price(price_text): none for None, else the price in hundredths
clean_price(price_text) ==
    LET \* re.sub(r'[\u20b9Rs\s]', '', price_text)
        no_symbols == SelectSeq(price_text, LAMBDA c : c \notin ({8377, 82, 115} \cup WhiteSpace))
        \* re.sub(r'[^\d.,]', '', clean_price)
        numeric == SelectSeq(no_symbols, LAMBDA c : c \in (Digits \cup {46, 44}))
        \* clean_price.strip('.')
        kept == {i \in 1..Len(numeric) : numeric[i] # 46}
        stripped == IF kept = {} THEN <<>>
                    ELSE SubSeq(numeric,
                                CHOOSE i \in kept : \A j \in kept : i <= j,
                                CHOOSE i \in kept : \A j \in kept : i >= j)
        \* clean_price.replace(',', '')
        no_commas == SelectSeq(stripped, LAMBDA c : c # 44)
        dots == {i \in 1..Len(no_commas) : no_commas[i] = 46}
        first_dot == IF dots = {} THEN Len(no_commas) + 1
                     ELSE CHOOSE i \in dots : \A j \in dots : i <= j
        whole == SubSeq(no_commas, 1, first_dot - 1)
        fraction == SubSeq(no_commas, first_dot + 1, Len(no_commas))
    IN  IF stripped = <<>> THEN [none |-> TRUE, value |-> 0]
        ELSE IF dots = {}
             THEN \* float(clean_price)
                  IF no_commas = <<>> THEN [none |-> TRUE, value |-> 0]
                  ELSE [none |-> FALSE, value |-> DigitsValue(no_commas) * 100]
        ELSE IF Cardinality(dots) = 1 /\ Len(fraction) <= 2
             THEN \* float(clean_price), with at most two decimals
                  IF whole = <<>> /\ fraction = <<>> THEN [none |-> TRUE, value |-> 0]
                  ELSE [none |-> FALSE,
                        value |-> DigitsValue(whole) * 100
                                  + (IF Len(fraction) = 1 THEN DigitsValue(fraction) * 10
                                     ELSE DigitsValue(fraction))]
        ELSE \* float(parts[0])
             IF whole = <<>> THEN [none |-> TRUE, value |-> 0]
             ELSE [none |-> FALSE, value |-> DigitsValue(whole) * 100]

\* fuzz.partial_ratio(s1, s2): 0 for an empty string, else the best ratio of
\* the shorter string against the pieces of its length of the longer string
partial_ratio(s1, s2) ==
    LET shorter == IF Len(s1) <= Len(s2) THEN s1 ELSE s2
        longer == IF Len(s1) <= Len(s2) THEN s2 ELSE s1
    IN  IF Len(shorter) = 0 THEN 0
        ELSE CHOOSE r \in 0..100 :
                 /\ \E i \in 0..(Len(longer) - Len(shorter)) :
                        r = fuzz_ratio(shorter, SubSeq(longer, i + 1, i + Len(shorter)))
                 /\ \A i \in 0..(Len(longer) - Len(shorter)) :
                        r >= fuzz_ratio(shorter, SubSeq(longer, i + 1, i + Len(shorter)))

\* A product container of a page, after the title, the link and the price
\* element were found in it
Container(product_name, product_link, price_text) ==
    [product_name |-> product_name, product_link |-> product_link, price_text |-> price_text]

\* The containers a page of Amazon.in may hold
ContainerPool ==
    {Container(NameIphone16, "/dp/1", <<8377, 49, 44, 51, 52, 44, 57, 48, 48>>),
     Container(NameIphone16, "/dp/2", <<8377, 48>>),
     Container(NameGalaxy24, "/dp/3", <<82, 115, 46, 32, 48, 46, 48, 48>>),
     Container(<<>>, "/dp/4", <<8377, 57, 57, 57>>),
     Container(NameIphone16Case, "/dp/5", <<70, 114, 101, 101>>),
     Container(NameIphone15, "/dp/6", <<82, 115, 46, 32, 52, 57, 57, 46, 53, 48>>)}

\* EnhancedAmazonInScraper._parse_results: the container is made a product
amazon_keeps(item, query) ==
    /\ ~clean_price(item.price_text).none
    /\ partial_ratio(Lower(query), Lower(item.product_name)) > 30

\* EnhancedAmazonInScraper._parse_results: the products of the containers
amazon_parse_results(items, query) ==
    LET kept == SelectSeq(items, LAMBDA item : amazon_keeps(item, query))
    IN  ListOf([i \in 1..Len(kept) |->
                   Product(kept[i].product_link, clean_price(kept[i].price_text).value, "INR",
                           kept[i].product_name, "Amazon.in")])

\* ------------------------------------------------------------------- state

VARIABLES
    \* one search request, from process_search_request to its response
    query,          \* data['query']
    country,        \* data['country']
    use_local,      \* data.get('use_local', False)
    local_html,     \* whether the tool was built with the local HTML samples
    reqPc,          \* the request thread: "start", "waiting", "responded"
    reqElapsed,     \* seconds since executor.submit, while the thread waits
    response,       \* the response sent
    otherBusy,      \* workers of the executor that run other requests' searches
    wPc,            \* run_async_search of this request: "none", "queued", "fanout", "done"
    fanElapsed,     \* seconds since the fan-out, while it runs
    tState,         \* per source task: "idle", "pending", "done"
    tCalls,         \* per source task: the calls of search() so far
    tOutcome,       \* per source task: how its retrieval ended
    tPage,          \* per source task: the listings its site served
    tResult,        \* per source task: what asyncio.gather collected from it
    tOrder,         \* the source tasks that have ended, in the order they ended
    wResult,        \* what search_products returned
    \* the Deduplicator on its own
    dPc,            \* "input", "deduped", "again"
    dIn,            \* the listing list handed to _remove_duplicates
    dOut,           \* its result
    dAgain,         \* the result of _remove_duplicates on dOut
    \* the ranker on its own
    rPc,            \* "input", "ranked", "filtered"
    rQuery,         \* search_query
    rMin,           \* min_relevance of the filter, in units of 1 / RelDen
    rIn,            \* the products handed to calculate_mcdm_scores
    rNorm,          \* normalize_price_score on the prices of rIn
    rRanked,        \* the result of calculate_mcdm_scores
    rFiltered,      \* the result of filter_low_relevance on rRanked
    ranker,         \* the MCDMRanker instances constructed so far
    \* one scraper's page on its way through search_products
    pPc,            \* "input", "parsed", "ranked"
    pRaw,           \* the name, link and price text of each product container
    pParsed,        \* the products _parse_results made of them
    pOut,           \* what search_products returns for them
    \* the executor and the searches of six requests
    sPc,            \* per search: "none", "queued", "running", "done"
    sPending,       \* per search: its source tasks that have not finished
    cPc,            \* per caller: "none", "waiting", "timeout", "answered"
    \* two searches that run at the same time, each in its own worker thread
    qPc,            \* per search: "idle", "gathered", "combined", "done"
    qQuery,         \* per search: its query
    qResults,       \* per search: what asyncio.gather returned to it
    all_products,   \* per search: its local list all_products
    qResult         \* per search: what search_products returned

requestVars == <<query, country, use_local, local_html, reqPc, reqElapsed, response, otherBusy>>

workerVars == <<wPc, fanElapsed, tState, tCalls, tOutcome, tPage, tResult, tOrder, wResult>>

taskVars == <<tState, tCalls, tOutcome, tPage, tResult, tOrder>>

dedupVars == <<dPc, dIn, dOut, dAgain>>

rankVars == <<rPc, rQuery, rMin, rIn, rNorm, rRanked, rFiltered, ranker>>

parseVars == <<pPc, pRaw, pParsed, pOut>>

concurrentVars == <<sPc, sPending, cPc, qPc, qQuery, qResults, all_products, qResult>>

vars == <<requestVars, workerVars, dedupVars, rankVars, parseVars, concurrentVars>>

\* The seconds between two instants the model looks at (deadlines are never
\* stepped over)
TickSeconds == 5

\* The countries and queries of the requests
CountryPool == {"US", "UK"}

DispatchQueries == {QueryIphone16, QueryGalaxy}

\* The floors handed to filter_low_relevance: 0.2 and the default 0.3
MinRelevancePool == {(RelDen \div 10) * 2, (RelDen \div 10) * 3}

Tasks == 1..Len(country_scrapers(country))

SourceOf(s) == country_scrapers(country)[s]

\* search() parses the local file: use_local and self.local_html_file
LocalMode == use_local /\ local_html

RequestIdle ==
    /\ query = QueryIphone16
    /\ country = "US"
    /\ use_local = FALSE
    /\ local_html = FALSE
    /\ reqPc = "start"
    /\ reqElapsed = 0
    /\ response = [status |-> 0, products |-> <<>>]
    /\ otherBusy = 0
    /\ wPc = "none"
    /\ fanElapsed = 0
    /\ tState = <<>>
    /\ tCalls = <<>>
    /\ tOutcome = <<>>
    /\ tPage = <<>>
    /\ tResult = <<>>
    /\ tOrder = <<>>
    /\ wResult = <<>>

DedupIdle ==
    /\ dPc = "input"
    /\ dIn = <<>>
    /\ dOut = <<>>
    /\ dAgain = <<>>

RankIdle ==
    /\ rPc = "input"
    /\ rQuery = QueryIphone16
    /\ rMin = 0
    /\ rIn = <<>>
    /\ rNorm = <<>>
    /\ rRanked = <<>>
    /\ rFiltered = <<>>
    /\ ranker = <<>>

ParseIdle ==
    /\ pPc = "input"
    /\ pRaw = <<>>
    /\ pParsed = <<>>
    /\ pOut = <<>>

\* no request has come in
ConcurrentIdle ==
    /\ sPc = [i \in 1..MAX_CONCURRENT_REQUESTS + 1 |-> "none"]
    /\ sPending = [i \in 1..MAX_CONCURRENT_REQUESTS + 1 |-> 0]
    /\ cPc = [i \in 1..MAX_CONCURRENT_REQUESTS + 1 |-> "none"]
    /\ qPc = [r \in 1..2 |-> "idle"]
    /\ qQuery = [r \in 1..2 |-> <<>>]
    /\ qResults = [r \in 1..2 |-> <<>>]
    /\ all_products = [r \in 1..2 |-> <<>>]
    /\ qResult = [r \in 1..2 |-> <<>>]

\* ------------------------------------------------- a search request

Init ==
    /\ query \in DispatchQueries
    /\ country \in CountryPool
    /\ use_local \in BOOLEAN
    /\ local_html \in BOOLEAN
    /\ reqPc = "start"
    /\ reqElapsed = 0
    /\ response = [status |-> 0, products |-> <<>>]
    /\ otherBusy = 0
    /\ wPc = "none"
    /\ fanElapsed = 0
    /\ tState = [s \in Tasks |-> "idle"]
    /\ tCalls = [s \in Tasks |-> 0]
    /\ tOutcome = [s \in Tasks |-> "none"]
    /\ tPage = [s \in Tasks |-> <<>>]
    /\ tResult = [s \in Tasks |-> Returned(<<>>)]
    /\ tOrder = <<>>
    /\ wResult = <<>>
    /\ DedupIdle
    /\ RankIdle
    /\ ParseIdle
    /\ ConcurrentIdle

\* another request's search takes a worker of the executor, before this
\* request is submitted
OtherStart ==
    /\ reqPc = "start"
    /\ otherBusy < MAX_CONCURRENT_REQUESTS
    /\ otherBusy' = otherBusy + 1
    /\ UNCHANGED <<query, country, use_local, local_html, reqPc, reqElapsed, response>>
    /\ UNCHANGED <<workerVars, dedupVars, rankVars, parseVars, concurrentVars>>

\* another request's search ends and frees its worker
OtherFinish ==
    /\ wPc = "queued"
    /\ otherBusy > 0
    /\ otherBusy' = otherBusy - 1
    /\ UNCHANGED <<query, country, use_local, local_html, reqPc, reqElapsed, response>>
    /\ UNCHANGED <<workerVars, dedupVars, rankVars, parseVars, concurrentVars>>

\* process_search_request: future = executor.submit(run_async_search, ...)
Submit ==
    /\ reqPc = "start"
    /\ reqPc' = "waiting"
    /\ wPc' = "queued"
    /\ UNCHANGED <<query, country, use_local, local_html, reqElapsed, response, otherBusy>>
    /\ UNCHANGED <<fanElapsed, taskVars, wResult, dedupVars, rankVars, parseVars, concurrentVars>>

\* a free worker runs run_async_search; search_products creates one task per
\* scraper of the country and awaits asyncio.gather.  The workers of the other
\* requests are followed until here.
WorkerStart ==
    /\ wPc = "queued"
    /\ otherBusy < MAX_CONCURRENT_REQUESTS
    /\ wPc' = "fanout"
    /\ fanElapsed' = 0
    /\ tState' = [s \in Tasks |-> "pending"]
    /\ tCalls' = InvokeAll(tCalls)
    /\ otherBusy' = 0
    /\ UNCHANGED <<tOutcome, tPage, tResult, tOrder, wResult>>
    /\ UNCHANGED <<query, country, use_local, local_html, reqPc, reqElapsed, response>>
    /\ UNCHANGED <<dedupVars, rankVars, parseVars, concurrentVars>>

\* task s in local mode: search() returns self._parse_local_html(query)
\* without awaiting, so the tasks run one after the other
LocalParse(s) ==
    /\ wPc = "fanout"
    /\ LocalMode
    /\ tState[s] = "pending"
    /\ \A t \in Tasks : t < s => tState[t] = "done"
    /\ \E file \in LocalFiles(SourceOf(s)) :
        /\ tOutcome' = [tOutcome EXCEPT ![s] = OutcomeOf(file)]
        /\ tPage' = [tPage EXCEPT ![s] = file.page]
        /\ tResult' = [tResult EXCEPT ![s] = search(parse_local_html(file))]
    /\ tState' = [tState EXCEPT ![s] = "done"]
    /\ tOrder' = Append(tOrder, s)
    /\ UNCHANGED <<wPc, fanElapsed, tCalls, wResult>>
    /\ UNCHANGED <<requestVars, dedupVars, rankVars, parseVars, concurrentVars>>

\* the site of task s answers: search() returns await self._search_online(...)
Respond(s) ==
    /\ wPc = "fanout"
    /\ ~LocalMode
    /\ tState[s] = "pending"
    /\ \E reply \in Replies(SourceOf(s)) :
        /\ tOutcome' = [tOutcome EXCEPT ![s] = OutcomeOf(reply)]
        /\ tPage' = [tPage EXCEPT ![s] = reply.page]
        /\ tResult' = [tResult EXCEPT ![s] = search(search_online(reply))]
    /\ tState' = [tState EXCEPT ![s] = "done"]
    /\ tOrder' = Append(tOrder, s)
    /\ UNCHANGED <<wPc, fanElapsed, tCalls, wResult>>
    /\ UNCHANGED <<requestVars, dedupVars, rankVars, parseVars, concurrentVars>>

\* the timer of the call of task s expires before the site answered
TimeoutFire(s) ==
    /\ wPc = "fanout"
    /\ ~LocalMode
    /\ tState[s] = "pending"
    /\ TimerExpired(fanElapsed)
    /\ tState' = AfterTimeout(tState, s)
    /\ tOutcome' = [t \in Tasks |->
                       IF tState[t] = "pending" /\ tState'[t] = "done"
                       THEN "timeout" ELSE tOutcome[t]]
    /\ tResult' = [t \in Tasks |->
                      IF tState[t] = "pending" /\ tState'[t] = "done"
                      THEN search(search_online([kind |-> "timeout"]))
                      ELSE tResult[t]]
    /\ tOrder' = Append(tOrder, s)
    /\ UNCHANGED <<wPc, fanElapsed, tCalls, tPage, wResult>>
    /\ UNCHANGED <<requestVars, dedupVars, rankVars, parseVars, concurrentVars>>

\* asyncio.gather returns; search_products combines, dedups, ranks, filters
\* and returns; run_async_search returns the result and the worker is free
Join ==
    /\ wPc = "fanout"
    /\ GatherDone(tState)
    /\ ranker' = Append(ranker, MCDMRanker)
    /\ wResult' = RankAndFilter(Combine(gather(tResult, tOrder)), query)
    /\ wPc' = "done"
    /\ UNCHANGED <<fanElapsed, taskVars>>
    /\ UNCHANGED <<rPc, rQuery, rMin, rIn, rNorm, rRanked, rFiltered>>
    /\ UNCHANGED <<requestVars, dedupVars, parseVars, concurrentVars>>

\* future.result(timeout=config.REQUEST_TIMEOUT) returns the products
RequestReturn ==
    /\ reqPc = "waiting"
    /\ wPc = "done"
    /\ response' = OkResponse(wResult)
    /\ reqPc' = "responded"
    /\ UNCHANGED <<query, country, use_local, local_html, reqElapsed, otherBusy>>
    /\ UNCHANGED <<workerVars, dedupVars, rankVars, parseVars, concurrentVars>>

\* future.result(timeout=config.REQUEST_TIMEOUT) raises: the search, queued or
\* running, goes on and the caller gets an error
RequestTimeout ==
    /\ reqPc = "waiting"
    /\ wPc # "done"
    /\ reqElapsed >= REQUEST_TIMEOUT
    /\ \E status \in {408, 500} : response' = ErrorResponse(status)
    /\ reqPc' = "responded"
    /\ UNCHANGED <<query, country, use_local, local_html, reqElapsed, otherBusy>>
    /\ UNCHANGED <<workerVars, dedupVars, rankVars, parseVars, concurrentVars>>

\* The time until the next deadline, at most TickSeconds
TickStep ==
    Min(TickSeconds,
        Min(IF reqPc = "waiting" THEN REQUEST_TIMEOUT - reqElapsed ELSE TickSeconds,
            IF wPc = "fanout" THEN TIMEOUT - fanElapsed ELSE TickSeconds))

\* Time passes.  Steps of the program take no time: time passes only while
\* the request thread waits on the future or the fan-out waits on the sites,
\* and no timer that has expired is left unserved.
Tick ==
    /\ reqPc = "waiting" \/ wPc = "fanout"
    /\ ~(reqPc = "waiting" /\ (wPc = "done" \/ reqElapsed >= REQUEST_TIMEOUT))
    /\ ~(wPc = "queued" /\ otherBusy < MAX_CONCURRENT_REQUESTS)
    /\ wPc = "fanout" =>
        /\ ~LocalMode
        /\ ~GatherDone(tState)
        /\ ~TimerExpired(fanElapsed)
    /\ reqElapsed' = IF reqPc = "waiting" THEN reqElapsed + TickStep ELSE reqElapsed
    /\ fanElapsed' = IF wPc = "fanout" THEN fanElapsed + TickStep ELSE fanElapsed
    /\ UNCHANGED <<query, country, use_local, local_html, reqPc, response, otherBusy>>
    /\ UNCHANGED <<wPc, taskVars, wResult, dedupVars, rankVars, parseVars, concurrentVars>>

Next ==
    \/ OtherStart
    \/ OtherFinish
    \/ Submit
    \/ WorkerStart
    \/ \E s \in Tasks : LocalParse(s)
    \/ \E s \in Tasks : Respond(s)
    \/ \E s \in Tasks : TimeoutFire(s)
    \/ Join
    \/ RequestReturn
    \/ RequestTimeout
    \/ Tick

Spec == Init /\ [][Next]_vars

\* ----------------------------------------- the Deduplicator on its own

DInit ==
    /\ DedupIdle
    /\ RequestIdle
    /\ RankIdle
    /\ ParseIdle
    /\ ConcurrentIdle

\* a source's listing joins the concatenated list
DAdd(l) ==
    /\ dPc = "input"
    /\ Len(dIn) < MaxLen
    /\ dIn' = Append(dIn, l)
    /\ UNCHANGED <<dPc, dOut, dAgain, requestVars, workerVars, rankVars, parseVars, concurrentVars>>

\* unique_products = self._remove_duplicates(all_products)
DRun ==
    /\ dPc = "input"
    /\ dOut' = remove_duplicates(dIn)
    /\ dPc' = "deduped"
    /\ UNCHANGED <<dIn, dAgain, requestVars, workerVars, rankVars, parseVars, concurrentVars>>

\* the Deduplicator run on its own output
DRunAgain ==
    /\ dPc = "deduped"
    /\ dAgain' = remove_duplicates(dOut)
    /\ dPc' = "again"
    /\ UNCHANGED <<dIn, dOut, requestVars, workerVars, rankVars, parseVars, concurrentVars>>

DNext ==
    \/ \E i \in DOMAIN ListingPool : DAdd(ListingPool[i])
    \/ DRun
    \/ DRunAgain

SpecDedup == DInit /\ [][DNext]_vars

\* ------------------------------------------------- the ranker on its own

RInit ==
    /\ rPc = "input"
    /\ rQuery \in QueryPool
    /\ rMin = 0
    /\ rIn = <<>>
    /\ rNorm = <<>>
    /\ rRanked = <<>>
    /\ rFiltered = <<>>
    /\ ranker = <<MCDMRanker>>
    /\ RequestIdle
    /\ DedupIdle
    /\ ParseIdle
    /\ ConcurrentIdle

\* a product dict joins the list handed to the ranker
RAdd(p) ==
    /\ rPc = "input"
    /\ Len(rIn) < MaxLen
    /\ rIn' = Append(rIn, p)
    /\ UNCHANGED <<rPc, rQuery, rMin, rNorm, rRanked, rFiltered, ranker, requestVars, workerVars, dedupVars, parseVars, concurrentVars>>

\* ranked_products = mcdm_ranker.calculate_mcdm_scores(product_dicts, query)
RRank ==
    /\ rPc = "input"
    /\ rNorm' = normalize_price_score(PricesIn(rIn))
    /\ rRanked' = calculate_mcdm_scores(rIn, rQuery)
    /\ rIn' = products_after_scoring(rIn, rQuery)
    /\ rPc' = "ranked"
    /\ UNCHANGED <<rQuery, rMin, rFiltered, ranker, requestVars, workerVars, dedupVars, parseVars, concurrentVars>>

\* mcdm_ranker.filter_low_relevance(ranked_products, min_relevance)
RFilter(min_relevance) ==
    /\ rPc = "ranked"
    /\ rMin' = min_relevance
    /\ rFiltered' = filter_low_relevance(rRanked, min_relevance)
    /\ rPc' = "filtered"
    /\ UNCHANGED <<rQuery, rIn, rNorm, rRanked, ranker, requestVars, workerVars, dedupVars, parseVars, concurrentVars>>

RNext ==
    \/ \E i \in DOMAIN RankPool : RAdd(RankPool[i])
    \/ RRank
    \/ \E min_relevance \in MinRelevancePool : RFilter(min_relevance)

SpecRank == RInit /\ [][RNext]_vars

\* ------------------------------------- the ranker on the products of the test

\* test_mcdm_detailed: the query of the test, no product yet
ScenarioInit ==
    /\ rPc = "input"
    /\ rQuery = QueryIphone16ProMax
    /\ rMin = 0
    /\ rIn = <<>>
    /\ rNorm = <<>>
    /\ rRanked = <<>>
    /\ rFiltered = <<>>
    /\ ranker = <<MCDMRanker>>
    /\ RequestIdle
    /\ DedupIdle
    /\ ParseIdle
    /\ ConcurrentIdle

ScenarioNext ==
    \/ \E i \in DOMAIN ScenarioPool : RAdd(ScenarioPool[i])
    \/ RRank
    \/ \E min_relevance \in MinRelevancePool : RFilter(min_relevance)

SpecScenario == ScenarioInit /\ [][ScenarioNext]_vars

\* ------------------------------- the ranker on queries of every category kind

\* a query of RelevanceQueries, no product yet
RelevanceInit ==
    /\ rPc = "input"
    /\ rQuery \in RelevanceQueries
    /\ rMin = 0
    /\ rIn = <<>>
    /\ rNorm = <<>>
    /\ rRanked = <<>>
    /\ rFiltered = <<>>
    /\ ranker = <<MCDMRanker>>
    /\ RequestIdle
    /\ DedupIdle
    /\ ParseIdle
    /\ ConcurrentIdle

RelevanceNext ==
    \/ \E p \in RelevancePool : RAdd(p)
    \/ RRank
    \/ \E min_relevance \in MinRelevancePool : RFilter(min_relevance)

SpecRelevance == RelevanceInit /\ [][RelevanceNext]_vars

\* ------------------------------------------ one page through search_products

\* a query of DispatchQueries, running on Amazon.in alone; no container yet
ParseInit ==
    /\ query \in DispatchQueries
    /\ country = "IN"
    /\ use_local = FALSE
    /\ local_html = FALSE
    /\ reqPc = "start"
    /\ reqElapsed = 0
    /\ response = [status |-> 0, products |-> <<>>]
    /\ otherBusy = 0
    /\ wPc = "none"
    /\ fanElapsed = 0
    /\ tState = <<>>
    /\ tCalls = <<>>
    /\ tOutcome = <<>>
    /\ tPage = <<>>
    /\ tResult = <<>>
    /\ tOrder = <<>>
    /\ wResult = <<>>
    /\ DedupIdle
    /\ RankIdle
    /\ ParseIdle
    /\ ConcurrentIdle

\* the page holds one more product container
ParseAdd(item) ==
    /\ pPc = "input"
    /\ Len(pRaw) < MaxLen
    /\ pRaw' = Append(pRaw, item)
    /\ UNCHANGED <<pPc, pParsed, pOut, requestVars, workerVars, dedupVars, rankVars, concurrentVars>>

\* _search_online: return self._parse_results(html, query)
ParsePage ==
    /\ pPc = "input"
    /\ pParsed' = amazon_parse_results(pRaw, query)
    /\ pPc' = "parsed"
    /\ UNCHANGED <<pRaw, pOut, requestVars, workerVars, dedupVars, rankVars, concurrentVars>>

\* search_products on the products of the page: dedup, rank, filter
ParseRank ==
    /\ pPc = "parsed"
    /\ ranker' = Append(ranker, MCDMRanker)
    /\ pOut' = RankAndFilter(pParsed, query)
    /\ pPc' = "ranked"
    /\ UNCHANGED <<rPc, rQuery, rMin, rIn, rNorm, rRanked, rFiltered>>
    /\ UNCHANGED <<pRaw, pParsed, requestVars, workerVars, dedupVars, concurrentVars>>

ParseNext ==
    \/ \E item \in ContainerPool : ParseAdd(item)
    \/ ParsePage
    \/ ParseRank

SpecParse == ParseInit /\ [][ParseNext]_vars

\* ------------------------------------- the executor and the searches it runs

\* executor = ThreadPoolExecutor(max_workers=config.MAX_CONCURRENT_REQUESTS):
\* no request has come in
PoolInit ==
    /\ RequestIdle
    /\ DedupIdle
    /\ RankIdle
    /\ ParseIdle
    /\ ConcurrentIdle

\* process_search_request of the next request:
\* future = executor.submit(run_async_search, ...), and the caller waits
PoolSubmit(i) ==
    /\ sPc[i] = "none"
    /\ \A j \in 1..i - 1 : sPc[j] # "none"
    /\ sPc' = [sPc EXCEPT ![i] = "queued"]
    /\ cPc' = [cPc EXCEPT ![i] = "waiting"]
    /\ UNCHANGED <<sPending, qPc, qQuery, qResults, all_products, qResult>>
    /\ UNCHANGED <<requestVars, workerVars, dedupVars, rankVars, parseVars>>

\* a free worker takes the search that has been queued longest and runs
\* run_async_search: the fan-out has one task per scraper of the country
PoolStart(i) ==
    /\ sPc[i] = "queued"
    /\ \A j \in 1..i - 1 : sPc[j] # "queued"
    /\ Cardinality({j \in DOMAIN sPc : sPc[j] = "running"}) < MAX_CONCURRENT_REQUESTS
    /\ sPc' = [sPc EXCEPT ![i] = "running"]
    /\ sPending' = [sPending EXCEPT ![i] = Len(country_scrapers("US"))]
    /\ UNCHANGED <<cPc, qPc, qQuery, qResults, all_products, qResult>>
    /\ UNCHANGED <<requestVars, workerVars, dedupVars, rankVars, parseVars>>

\* a source task of the search ends
PoolTaskDone(i) ==
    /\ sPc[i] = "running"
    /\ sPending[i] > 0
    /\ sPending' = [sPending EXCEPT ![i] = @ - 1]
    /\ UNCHANGED <<sPc, cPc, qPc, qQuery, qResults, all_products, qResult>>
    /\ UNCHANGED <<requestVars, workerVars, dedupVars, rankVars, parseVars>>

\* asyncio.gather returns, search_products and run_async_search return, and
\* the worker is free
PoolFinish(i) ==
    /\ sPc[i] = "running"
    /\ sPending[i] = 0
    /\ sPc' = [sPc EXCEPT ![i] = "done"]
    /\ UNCHANGED <<sPending, cPc, qPc, qQuery, qResults, all_products, qResult>>
    /\ UNCHANGED <<requestVars, workerVars, dedupVars, rankVars, parseVars>>

\* Fault: the search of a caller that stops waiting is cancelled
CallerTimeoutCancels(i) ==
    /\ cPc[i] = "waiting"
    /\ sPc[i] \in {"queued", "running"}
    /\ cPc' = [cPc EXCEPT ![i] = "timeout"]
    /\ sPc' = [sPc EXCEPT ![i] = "done"]
    /\ sPending' = [sPending EXCEPT ![i] = 0]
    /\ UNCHANGED <<qPc, qQuery, qResults, all_products, qResult>>
    /\ UNCHANGED <<requestVars, workerVars, dedupVars, rankVars, parseVars>>

\* future.result(timeout=config.REQUEST_TIMEOUT) raises: the caller answers
\* with an error; nothing is done to the future
CallerTimeout(i) ==
    /\ cPc[i] = "waiting"
    /\ sPc[i] \in {"queued", "running"}
    /\ cPc' = [cPc EXCEPT ![i] = "timeout"]
    /\ UNCHANGED <<sPc, sPending, qPc, qQuery, qResults, all_products, qResult>>
    /\ UNCHANGED <<requestVars, workerVars, dedupVars, rankVars, parseVars>>

\* future.result returns the products to the caller
CallerReturn(i) ==
    /\ cPc[i] = "waiting"
    /\ sPc[i] = "done"
    /\ cPc' = [cPc EXCEPT ![i] = "answered"]
    /\ UNCHANGED <<sPc, sPending, qPc, qQuery, qResults, all_products, qResult>>
    /\ UNCHANGED <<requestVars, workerVars, dedupVars, rankVars, parseVars>>

PoolNext ==
    \E i \in 1..MAX_CONCURRENT_REQUESTS + 1 :
        \/ PoolSubmit(i)
        \/ PoolStart(i)
        \/ PoolTaskDone(i)
        \/ PoolFinish(i)
        \/ CallerTimeout(i)
        \/ CallerReturn(i)

SpecPool == PoolInit /\ [][PoolNext]_vars

\* ------------------------------------------- two searches at the same time

\* two requests have been submitted and no worker has started
PairInit ==
    /\ RequestIdle
    /\ DedupIdle
    /\ RankIdle
    /\ ParseIdle
    /\ ConcurrentIdle

\* run_async_search of request r, in its worker thread: a new event loop, a
\* new tool from create_price_tool(), and search_products up to the return of
\* asyncio.gather with the result of each scraper of the country
PairGather(r) ==
    /\ qPc[r] = "idle"
    /\ \E search_query \in DispatchQueries :
           qQuery' = [qQuery EXCEPT ![r] = search_query]
    /\ \E results \in [1..Len(country_scrapers("US")) ->
                          UNION {{search(search_online(reply)) : reply \in Replies(source)} :
                                    source \in {"eBay.com", "Walmart"}}] :
           /\ \A s \in DOMAIN results :
                  \E reply \in Replies(country_scrapers("US")[s]) :
                      results[s] = search(search_online(reply))
           /\ qResults' = [qResults EXCEPT ![r] = results]
    /\ qPc' = [qPc EXCEPT ![r] = "gathered"]
    /\ UNCHANGED <<all_products, qResult, sPc, sPending, cPc>>
    /\ UNCHANGED <<requestVars, workerVars, dedupVars, rankVars, parseVars>>

\* Fault: all_products is one list that every search assigns
PairCombineShared(r) ==
    /\ qPc[r] = "gathered"
    /\ all_products' = [x \in DOMAIN all_products |-> Combine(qResults[r])]
    /\ qPc' = [qPc EXCEPT ![r] = "combined"]
    /\ UNCHANGED <<qQuery, qResults, qResult, sPc, sPending, cPc>>
    /\ UNCHANGED <<requestVars, workerVars, dedupVars, rankVars, parseVars>>

\* search_products of request r: all_products = [] and the loop over results,
\* on the local variable of this call
PairCombine(r) ==
    /\ qPc[r] = "gathered"
    /\ all_products' = [all_products EXCEPT ![r] = Combine(qResults[r])]
    /\ qPc' = [qPc EXCEPT ![r] = "combined"]
    /\ UNCHANGED <<qQuery, qResults, qResult, sPc, sPending, cPc>>
    /\ UNCHANGED <<requestVars, workerVars, dedupVars, rankVars, parseVars>>

\* search_products of request r: dedup, rank with a new MCDMRanker, filter,
\* and return
PairRank(r) ==
    /\ qPc[r] = "combined"
    /\ qResult' = [qResult EXCEPT ![r] = RankAndFilter(all_products[r], qQuery[r])]
    /\ qPc' = [qPc EXCEPT ![r] = "done"]
    /\ UNCHANGED <<qQuery, qResults, all_products, sPc, sPending, cPc>>
    /\ UNCHANGED <<requestVars, workerVars, dedupVars, rankVars, parseVars>>

PairNext ==
    \E r \in 1..2 :
        \/ PairGather(r)
        \/ PairCombine(r)
        \/ PairRank(r)

SpecPair == PairInit /\ [][PairNext]_vars

\* ------------------------------------------------------------- properties

RECURSIVE PickFrom(_, _, _)
\* the elements of s at the indexes in idx, from index i on, in the order of s
PickFrom(s, idx, i) ==
    IF i > Len(s) THEN <<>>
    ELSE (IF i \in idx THEN <<s[i]>> ELSE <<>>) \o PickFrom(s, idx, i + 1)

PickSeq(s, idx) == PickFrom(s, idx, 1)

\* the tasks whose retrieval ended with a page of listings
Succeeded == {s \in Tasks : tState[s] = "done" /\ tOutcome[s] = "listings"}

\* the tasks whose retrieval ended in a failure
Failed == {s \in Tasks : tState[s] = "done" /\ tOutcome[s] # "listings"}

RECURSIVE ListingsFrom(_)
\* the listings of the sources that did not fail, in the order of the sources
ListingsFrom(s) ==
    IF s > Len(tState) THEN <<>>
    ELSE (IF s \in Succeeded THEN tPage[s] ELSE <<>>) \o ListingsFrom(s + 1)

\* the product dict ranked is the product dict given, with its scores
SameListing(ranked, given) ==
    /\ ranked.link = given.link
    /\ ranked.price = given.price
    /\ ranked.currency = given.currency
    /\ ranked.productName = given.productName
    /\ ranked.source = given.source

\* products is in descending order of mcdm_score
SortedByScore(products) ==
    \A i, j \in 1..Len(products) :
        i < j => ScoreCmp(products[i].mcdm_score, products[j].mcdm_score) >= 0

\* C1: whatever sources fail, search_products completes, a failed source
\* contributes no listing, a source that did not fail contributes its page, and
\* the result is the pipeline's result (dedup, rank, filter) on exactly the
\* listings of the sources that did not fail.
C1_PartialFailureTolerance ==
    /\ \A s \in Failed : tResult[s] = Returned(<<>>)
    /\ \A s \in Succeeded : tResult[s] = Returned(tPage[s])
    /\ wPc = "done" => \A s \in Tasks : tState[s] = "done" /\ ~tResult[s].raised
    /\ wPc = "done" => wResult = RankAndFilter(ListingsFrom(1), query)

\* a search joined with a failed source and a source that served listings
C1_Witness ==
    /\ wPc = "done"
    /\ \E s \in Failed : tOutcome[s] \in {"error", "http_error"}
    /\ \E s \in Succeeded : tPage[s] # <<>>
    /\ wResult # <<>>

C4_DedupOutput ==
    dPc # "input" =>
        /\ \A i, j \in 1..Len(dOut) : i # j => ~IsDuplicatePair(dOut[i], dOut[j])
        /\ \E idx \in SUBSET (1..Len(dIn)) :
               /\ dOut = PickSeq(dIn, idx)
               /\ \A i \in (1..Len(dIn)) \ idx :
                      \E j \in idx : j < i /\ IsDuplicatePair(dIn[i], dIn[j])

\* ListingPool[2] is left out for ListingPool[1]; ListingPool[4], equivalent to ListingPool[2] but not to ListingPool[1], is kept
C4_Witness ==
    /\ dPc = "deduped"
    /\ dIn = <<ListingPool[1], ListingPool[2], ListingPool[4]>>
    /\ dOut = <<ListingPool[1], ListingPool[4]>>

\* C5: _remove_duplicates on its own output returns that output.
C5_DedupIdempotent == dPc = "again" => dAgain = dOut

\* a run on a list whose equivalence is not transitive (ListingPool[4] ~ ListingPool[2] ~ ListingPool[1], not ListingPool[4] ~ ListingPool[1])
C5_Witness ==
    /\ dPc = "again"
    /\ dIn = <<ListingPool[1], ListingPool[4], ListingPool[2]>>
    /\ IsDuplicatePair(ListingPool[2], ListingPool[1]) /\ IsDuplicatePair(ListingPool[2], ListingPool[4]) /\ ~IsDuplicatePair(ListingPool[4], ListingPool[1])
    /\ dAgain = <<ListingPool[1], ListingPool[4]>>

\* C6: of two listings in one currency the second is dropped exactly when the
\* names are more than 90 similar and |p1 - p2| / max(p1, p2, 1) < 0.05 (prices
\* in hundredths: 20 * |p1 - p2| < max(p1, p2, 100)); equal names 2% apart are
\* merged, 8% apart or exactly 5% apart kept, names exactly 90 similar kept.
C6_SameCurrencyRule ==
    (dPc # "input" /\ Len(dIn) = 2 /\ dIn[1].currency = dIn[2].currency) =>
        /\ (dOut = <<dIn[1]>>) <=>
               /\ fuzz_ratio(Lower(dIn[2].product_name), Lower(dIn[1].product_name)) > 90
               /\ 20 * Abs(dIn[2].price - dIn[1].price)
                      < Max(Max(dIn[2].price, dIn[1].price), 100)
        /\ dOut = <<dIn[1]>> \/ dOut = dIn
        /\ dIn = <<ListingPool[1], ListingPool[2]>> => dOut = <<ListingPool[1]>>
        /\ dIn \in {<<ListingPool[1], ListingPool[3]>>, <<ListingPool[1], ListingPool[4]>>, <<ListingPool[8], ListingPool[9]>>} => dOut = dIn

\* the 2% pair is merged
C6_Witness ==
    /\ dPc = "deduped"
    /\ dIn = <<ListingPool[1], ListingPool[2]>>
    /\ dOut = <<ListingPool[1]>>

\* C7: of two listings in different currencies the second is dropped exactly
\* when the names are more than 95 similar, whatever the prices; a pair that is
\* merged across currencies would pass the name test of the same-currency rule.
C7_CrossCurrencyRule ==
    (dPc # "input" /\ Len(dIn) = 2 /\ dIn[1].currency # dIn[2].currency) =>
        /\ (dOut = <<dIn[1]>>) <=>
               fuzz_ratio(Lower(dIn[2].product_name), Lower(dIn[1].product_name)) > 95
        /\ dOut = <<dIn[1]>> \/ dOut = dIn
        /\ dOut = <<dIn[1]>> =>
               IsDuplicatePair([dIn[2] EXCEPT !.currency = dIn[1].currency,
                                              !.price = dIn[1].price], dIn[1])
        /\ dIn = <<ListingPool[1], ListingPool[7]>> => dOut = <<ListingPool[1]>>
        /\ dIn = <<ListingPool[1], ListingPool[6]>> => dOut = dIn

\* equal names at far prices in two currencies are merged
C7_Witness ==
    /\ dPc = "deduped"
    /\ dIn = <<ListingPool[1], ListingPool[7]>>
    /\ dOut = <<ListingPool[1]>>

\* C8: filter_low_relevance returns exactly the listings of the ranked list
\* whose relevance is at least min_relevance, in their order, so the result is
\* still sorted by descending score.
C8_FilterCorrect ==
    rPc = "filtered" =>
        /\ \A i \in 1..Len(rFiltered) : rFiltered[i].relevance_score >= rMin
        /\ rFiltered =
               PickSeq(rRanked, {i \in 1..Len(rRanked) : rRanked[i].relevance_score >= rMin})
        /\ SortedByScore(rFiltered)

\* a filter that drops a listing ranked first and keeps one ranked behind it
C8_Witness ==
    /\ rPc = "filtered"
    /\ Len(rRanked) = 3
    /\ Len(rFiltered) = 2
    /\ rRanked[1].relevance_score < rMin

\* C9: calculate_mcdm_scores returns the listings given, sorted by descending
\* composite score, listings of equal score in the order of the input.
C9_StableDescending ==
    rPc = "ranked" =>
        /\ Len(rRanked) = Len(rIn)
        /\ SortedByScore(rRanked)
        /\ \E perm \in Permutations(1..Len(rIn)) :
               /\ \A k \in 1..Len(rIn) : SameListing(rRanked[k], rIn[perm[k]])
               /\ \A i, j \in 1..Len(rIn) :
                      (i < j /\ ScoreCmp(rRanked[i].mcdm_score, rRanked[j].mcdm_score) = 0)
                          => perm[i] < perm[j]

\* two listings of equal score keep their order, a better one passes both
C9_Witness ==
    /\ rPc = "ranked"
    /\ rQuery = QueryIphone16
    /\ rIn = <<RankPool[3], RankPool[2], RankPool[1]>>
    /\ rRanked[1].link = RankPool[2].link /\ rRanked[2].link = RankPool[1].link /\ rRanked[3].link = RankPool[3].link
    /\ ScoreCmp(rRanked[1].mcdm_score, rRanked[2].mcdm_score) = 0

\* C10: calculate_relevance_score is within [0, 1] (RelDen is 1), and the
\* relevance calculate_mcdm_scores reports is at least 0 and at most the
\* unadjusted relevance of the listing.
C10_RelevanceBound ==
    /\ (rPc = "input" /\ rIn # <<>>) =>
           /\ calculate_relevance_score(rIn[Len(rIn)].productName, rQuery) >= 0
           /\ calculate_relevance_score(rIn[Len(rIn)].productName, rQuery) <= RelDen
    /\ rPc = "ranked" =>
           \A k \in 1..Len(rRanked) :
               /\ rRanked[k].relevance_score >= 0
               /\ rRanked[k].relevance_score
                      <= calculate_relevance_score(rRanked[k].productName, rQuery)

\* one listing reaches relevance 1, the adjustments lower another
C10_Witness ==
    /\ rPc = "ranked"
    /\ \E k \in 1..Len(rRanked) : rRanked[k].relevance_score = RelDen
    /\ \E k \in 1..Len(rRanked) :
           /\ rRanked[k].relevance_score > 0
           /\ rRanked[k].relevance_score
                  < calculate_relevance_score(rRanked[k].productName, rQuery)

\* the listing is an exact model match for the query, as the first pass flags it
FlaggedExact(product, search_query) ==
    is_exact_model_match(Lower(product.productName), Lower(search_query))

\* the listing is flagged as an accessory
FlaggedAccessory(product) == is_accessory_product(Lower(product.productName))

\* the unadjusted relevance of a listing
BaseRelevance(product, search_query) ==
    calculate_relevance_score(product.productName, search_query)

\* C11: when some listing of the set is an exact model match, the reported
\* relevance of a listing is its base relevance, times 0.8 when it is not an
\* exact match, times 0.3 when it is an accessory and the query is not an
\* accessory query; when no listing is an exact match, the reported relevance
\* of every listing is its base relevance.
C11_ContextualAdjustments ==
    rPc = "ranked" =>
        \A k \in 1..Len(rRanked) :
            IF \E i \in 1..Len(rIn) : FlaggedExact(rIn[i], rQuery)
            THEN rRanked[k].relevance_score * 100 =
                     BaseRelevance(rRanked[k], rQuery)
                         * (IF FlaggedExact(rRanked[k], rQuery) THEN 10 ELSE 8)
                         * (IF FlaggedAccessory(rRanked[k]) /\ ~is_searching_for_accessory(rQuery)
                            THEN 3 ELSE 10)
            ELSE rRanked[k].relevance_score = BaseRelevance(rRanked[k], rQuery)

\* a set with an exact match, a listing lowered by 0.8 and an accessory
\* lowered by 0.3
C11_Witness ==
    /\ rPc = "ranked"
    /\ rQuery = QueryIphone16
    /\ \E k \in 1..Len(rRanked) : FlaggedExact(rRanked[k], rQuery) /\ ~FlaggedAccessory(rRanked[k])
    /\ \E k \in 1..Len(rRanked) :
           /\ ~FlaggedExact(rRanked[k], rQuery)
           /\ rRanked[k].relevance_score > 0
           /\ rRanked[k].relevance_score * 10 = BaseRelevance(rRanked[k], rQuery) * 8
    /\ \E k \in 1..Len(rRanked) :
           /\ FlaggedAccessory(rRanked[k])
           /\ rRanked[k].relevance_score > 0
           /\ rRanked[k].relevance_score * 10 = BaseRelevance(rRanked[k], rQuery) * 3

\* the trust of a source, in hundredths: its table value, 0.5 outside the table
TrustOf(source) ==
    IF source \in {"Amazon.in", "Flipkart", "Walmart", "eBay.com", "eBay.in", "Snapdeal", "Shopsy"}
    THEN source_reliability[source]
    ELSE 50

IsMinPrice(p) == \A j \in 1..Len(rIn) : p <= rIn[j].price

IsMaxPrice(p) == \A j \in 1..Len(rIn) : p >= rIn[j].price

\* C13: normalize_price_score returns one score per price, in input order:
\* none for no price, 0.5 each when the prices are all equal or there is one
\* price, and otherwise 1 - (price - min) / (max - min), which is 1.0 for
\* every occurrence of the minimum and 0.0 for every occurrence of the maximum.
C13_NormalizePrice ==
    rPc # "input" =>
        /\ Len(rNorm) = Len(rIn)
        /\ rIn = <<>> => rNorm = <<>>
        /\ \A i \in 1..Len(rIn) :
               /\ rNorm[i][2] > 0
               /\ IF \A j \in 1..Len(rIn) : rIn[j].price = rIn[i].price
                  THEN rNorm[i][1] * 2 = rNorm[i][2]
                  ELSE /\ IsMinPrice(rIn[i].price) => rNorm[i][1] = rNorm[i][2]
                       /\ IsMaxPrice(rIn[i].price) => rNorm[i][1] = 0
                       /\ \A lo, hi \in 1..Len(rIn) :
                              (IsMinPrice(rIn[lo].price) /\ IsMaxPrice(rIn[hi].price)) =>
                                  rNorm[i][1] * (rIn[hi].price - rIn[lo].price) =
                                      rNorm[i][2] * (rIn[hi].price - rIn[i].price)

\* three prices: the lowest scores 1.0, the highest 0.0, the third in between
C13_Witness ==
    /\ rPc = "ranked"
    /\ Len(rIn) = 3
    /\ \E i, j, k \in 1..3 :
           /\ rNorm[i][1] = rNorm[i][2]
           /\ rNorm[j][1] = 0
           /\ rNorm[k][1] > 0 /\ rNorm[k][1] < rNorm[k][2]

\* C14: of two listings of one set in the same currency the one with the
\* lower price has a normalized price score at least that of the other, and
\* equal prices have equal scores.
C14_PriceMonotone ==
    rPc # "input" =>
        \A i, j \in 1..Len(rIn) :
            rIn[i].currency = rIn[j].currency =>
                /\ rIn[i].price < rIn[j].price =>
                       rNorm[i][1] * rNorm[j][2] >= rNorm[j][1] * rNorm[i][2]
                /\ rIn[i].price = rIn[j].price =>
                       rNorm[i][1] * rNorm[j][2] = rNorm[j][1] * rNorm[i][2]

\* two listings in one currency, the cheaper with the strictly higher score
C14_Witness ==
    /\ rPc = "ranked"
    /\ \E i, j \in 1..Len(rIn) :
           /\ rIn[i].currency = rIn[j].currency
           /\ rIn[i].price < rIn[j].price
           /\ rNorm[i][1] * rNorm[j][2] > rNorm[j][1] * rNorm[i][2]

RECURSIVE GroupPrices(_, _, _)
\* the prices of the products quoted in currency, from index i on
GroupPrices(products, currency, i) ==
    IF i > Len(products) THEN <<>>
    ELSE (IF products[i].currency = currency THEN <<products[i].price>> ELSE <<>>)
         \o GroupPrices(products, currency, i + 1)

\* the number of products among the first i that are quoted in currency
GroupIndex(products, currency, i) ==
    Cardinality({j \in 1..i : products[j].currency = currency})

\* C15: the normalized price score of a listing does not depend on the price
\* of a listing quoted in another currency: it is the score the listing gets
\* when the prices of its own currency are normalized alone.
C15_CurrencyGroups ==
    rPc # "input" =>
        \A i \in 1..Len(rIn) :
            LET own == normalize_price_score(GroupPrices(rIn, rIn[i].currency, 1))
                          [GroupIndex(rIn, rIn[i].currency, i)]
            IN  rNorm[i][1] * own[2] = own[1] * rNorm[i][2]

\* rIn holds each product of the test once
IsScenario ==
    /\ Len(rIn) = 3
    /\ {rIn[i] : i \in 1..3} = {ScenarioPool[i] : i \in 1..3}

\* C16: for the query "iPhone 16 Pro Max" and the listings A, B and C of the
\* test, in any input order, A is an exact model match, B is flagged as an
\* accessory and its relevance is lowered by the accessory factor 0.3, C is
\* not an exact match and its relevance is lowered by 20%, and the ranked
\* order is A, C, B.
C16_ConcreteScenario ==
    (rPc = "ranked" /\ IsScenario) =>
        /\ FlaggedExact(ScenarioPool[1], rQuery)
        /\ FlaggedAccessory(ScenarioPool[2])
        /\ ~FlaggedExact(ScenarioPool[3], rQuery)
        /\ SameListing(rRanked[1], ScenarioPool[1])
        /\ SameListing(rRanked[2], ScenarioPool[3])
        /\ SameListing(rRanked[3], ScenarioPool[2])
        /\ rRanked[1].relevance_score = BaseRelevance(ScenarioPool[1], rQuery)
        /\ rRanked[2].relevance_score * 10 = BaseRelevance(ScenarioPool[3], rQuery) * 8
        /\ rRanked[3].relevance_score * 10 = BaseRelevance(ScenarioPool[2], rQuery) * 3
        /\ rRanked[3].relevance_score < rRanked[2].relevance_score

\* the three listings of the test ranked from the input order B, C, A
C16_Witness ==
    /\ rPc = "ranked"
    /\ rQuery = QueryIphone16ProMax
    /\ rIn = <<ScenarioPool[2], ScenarioPool[3], ScenarioPool[1]>>
    /\ rRanked[1].link = "a" /\ rRanked[2].link = "c" /\ rRanked[3].link = "b"
    /\ rRanked[3].relevance_score > 0

\* every source failed or returned no listing
NothingFound == \A s \in Tasks : tState[s] = "done" /\ (s \in Failed \/ tPage[s] = <<>>)

\* C17: when every source fails or returns no listing, search_products
\* returns the empty list and no error: no retrieval hands an exception to the
\* join, dedup, ranking and filtering accept the empty list, and the caller is
\* answered with status 200 and no product.
C17_EmptyResult ==
    /\ remove_duplicates(<<>>) = <<>>
    /\ calculate_mcdm_scores(<<>>, query) = <<>>
    /\ filter_low_relevance(<<>>, SEARCH_MIN_RELEVANCE) = <<>>
    /\ (wPc = "done" /\ NothingFound) =>
           /\ \A s \in Tasks : ~tResult[s].raised
           /\ wResult = <<>>
           /\ reqPc = "responded" /\ response.status = 200 => response.products = <<>>
    /\ (wPc = "done" /\ NothingFound /\ reqPc = "responded") =>
           response.status \in {200, 408, 500} /\ response.products = <<>>

\* a search of two sources, one failed and one without listings, answered
\* with status 200
C17_Witness ==
    /\ wPc = "done"
    /\ reqPc = "responded"
    /\ response = [status |-> 200, products |-> <<>>]
    /\ \E s \in Failed : tOutcome[s] \in {"error", "timeout"}
    /\ \E s \in Succeeded : tPage[s] = <<>>

\* C19: search() of each configured source is called exactly once in a query,
\* when the fan-out begins, whether the retrieval succeeds, fails or times out:
\* no call before, none after, and a retrieval that has ended never runs again.
C19_NoRetries ==
    /\ [](\A s \in Tasks :
              tCalls[s] = IF wPc \in {"fanout", "done"} THEN 1 ELSE 0)
    /\ [](\A s \in Tasks : tState[s] \in {"pending", "done"} <=> tCalls[s] = 1)
    /\ [][\A s \in Tasks :
              tState[s] = "done" => (tState'[s] = "done" /\ tCalls'[s] = tCalls[s])]_vars

\* a search joined after a failure, a timeout or an answer of each source
C19_Witness ==
    /\ wPc = "done"
    /\ \E s \in Failed : tOutcome[s] = "timeout" /\ tCalls[s] = 1
    /\ \E s \in Failed : tOutcome[s] = "error" /\ tCalls[s] = 1

\* C20: when the wait of the request layer on the search expires, the caller
\* is answered with an error that holds no listing, and stops waiting: the
\* response is never changed afterwards, also when the sources return listings
\* later.
C20_NoPartialOutput ==
    /\ [][(reqPc = "waiting" /\ wPc # "done" /\ reqPc' = "responded") =>
              /\ reqElapsed >= REQUEST_TIMEOUT
              /\ response'.status \in {408, 500}
              /\ response'.products = <<>>]_vars
    /\ [][reqPc = "responded" =>
              (reqPc' = "responded" /\ response' = response /\ reqElapsed' = reqElapsed)]_vars

\* the caller gave up while one source had served listings and another was
\* still pending
C20_Witness ==
    /\ reqPc = "responded"
    /\ response.status = 500
    /\ response.products = <<>>
    /\ wPc = "fanout"
    /\ \E s \in Succeeded : tPage[s] # <<>>
    /\ \E s \in Tasks : tState[s] = "pending"

\* C18: a listing with a price that is not positive, or with an empty name,
\* that a source finds on its page is never in what search_products returns.
C18_NoMalformedOutput ==
    pPc = "ranked" =>
        \A k \in 1..Len(pOut) : pOut[k].price > 0 /\ pOut[k].productName # <<>>

\* ------------------------------------------------ category and key-term claims

\* the name of the category the query falls in, "none" when it falls in none
CategoryOf(search_query) ==
    LET c == QueryCategory(Lower(search_query))
    IN  IF c = 0 THEN "none" ELSE categories[c][1]

\* the listing name contains a keyword of the category
NameInCategory(product, category) ==
    \E c \in 1..Len(categories) :
        /\ categories[c][1] = category
        /\ AnyKeywordIn(categories[c][2], Lower(product.productName))

\* the category alignment of a listing for a query, in tenths
AlignmentOf(product, search_query) ==
    calculate_category_alignment(Lower(product.productName), Lower(search_query))

\* C24 as the specification states it: the alignment is 0.1 for a main-product
\* query and a listing with an accessory keyword, 1.0 for a listing that
\* matches the category of the query, and 0.5 in every other case.
C24_ThreeValues ==
    rPc = "ranked" =>
        \A k \in 1..Len(rIn) :
            AlignmentOf(rIn[k], rQuery) =
                IF /\ CategoryOf(rQuery) \in {"phone", "laptop", "tablet"}
                   /\ NameInCategory(rIn[k], "accessory")
                THEN 1
                ELSE IF NameInCategory(rIn[k], CategoryOf(rQuery)) THEN 10
                ELSE 5

\* C24: category alignment yields one of five values. For a main-product query
\* (phone, laptop, tablet): 0.1 when the listing name holds an accessory
\* keyword, also when it holds a keyword of the query's category as well, 1.0
\* when it holds a keyword of the query's category and no accessory keyword,
\* and 0.3 otherwise. For an audio or accessory query: 1.0 when the listing
\* name holds a keyword of the query's category, 0.2 when it does not, the
\* query is an audio query and the name holds an accessory keyword, and 0.5
\* otherwise. For a query that falls in no category: 0.5.
C24_FiveValues ==
    rPc = "ranked" =>
        \A k \in 1..Len(rIn) :
            AlignmentOf(rIn[k], rQuery) =
                IF CategoryOf(rQuery) = "none" THEN 5
                ELSE IF CategoryOf(rQuery) \in {"phone", "laptop", "tablet"}
                THEN IF NameInCategory(rIn[k], "accessory") THEN 1
                     ELSE IF NameInCategory(rIn[k], CategoryOf(rQuery)) THEN 10
                     ELSE 3
                ELSE IF NameInCategory(rIn[k], CategoryOf(rQuery)) THEN 10
                ELSE IF CategoryOf(rQuery) = "audio" /\ NameInCategory(rIn[k], "accessory") THEN 2
                ELSE 5

\* a phone query ranked a phone, an accessory and a laptop: 1.0, 0.1 and 0.3
C24_Witness ==
    /\ rPc = "ranked"
    /\ CategoryOf(rQuery) = "phone"
    /\ \E k \in 1..Len(rIn) : AlignmentOf(rIn[k], rQuery) = 10
    /\ \E k \in 1..Len(rIn) :
           /\ NameInCategory(rIn[k], "phone")
           /\ AlignmentOf(rIn[k], rQuery) = 1
    /\ \E k \in 1..Len(rIn) : AlignmentOf(rIn[k], rQuery) = 3

\* C29: for a query that holds a phone keyword and an accessory keyword,
\* category alignment takes the query for a phone query and gives a listing
\* with an accessory keyword 0.1, while the contextual adjustment takes the
\* same query for an accessory query and does not lower the relevance of an
\* accessory listing by the factor 0.3.
C29_AccessoryDecisionsDisagree ==
    (/\ rPc = "ranked"
     /\ AnyKeywordIn(categories[1][2], Lower(rQuery))
     /\ AnyKeywordIn(<<<<99, 97, 115, 101>>, <<99, 111, 118, 101, 114>>, <<99, 104, 97, 114, 103, 101, 114>>, <<99, 97, 98, 108, 101>>, <<115, 99, 114, 101, 101, 110, 32, 112, 114, 111, 116, 101, 99, 116, 111, 114>>>>,
                     Lower(rQuery))) =>
        /\ CategoryOf(rQuery) = "phone"
        /\ is_searching_for_accessory(rQuery)
        /\ \A k \in 1..Len(rRanked) :
               FlaggedAccessory(rRanked[k]) =>
                   /\ NameInCategory(rRanked[k], "accessory") =>
                          AlignmentOf(rRanked[k], rQuery) = 1
                   /\ rRanked[k].relevance_score * 10 =
                          BaseRelevance(rRanked[k], rQuery)
                              * (IF (\E i \in 1..Len(rIn) : FlaggedExact(rIn[i], rQuery))
                                     /\ ~FlaggedExact(rRanked[k], rQuery)
                                 THEN 8 ELSE 10)

\* the second pass ran on a query with "iphone" and "case", and the set holds
\* an accessory listing with alignment 0.1 whose relevance was not lowered
C29_Witness ==
    /\ rPc = "ranked"
    /\ rQuery = <<105, 112, 104, 111, 110, 101, 32, 49, 54, 32, 112, 114, 111, 32, 109, 97, 120, 32, 99, 97, 115, 101>>
    /\ \E i \in 1..Len(rIn) : FlaggedExact(rIn[i], rQuery)
    /\ \E k \in 1..Len(rRanked) :
           /\ FlaggedAccessory(rRanked[k])
           /\ AlignmentOf(rRanked[k], rQuery) = 1
           /\ rRanked[k].relevance_score > 0
           /\ rRanked[k].relevance_score * 10 \in
                  {BaseRelevance(rRanked[k], rQuery) * 10, BaseRelevance(rRanked[k], rQuery) * 8}

\* C30: in calculate_relevance_score the number of key terms counted as partial
\* matches equals the number counted as exact matches, for every listing and
\* query, so the partial coverage equals the exact coverage before the model
\* bonus; with no key term in the query both counts are 0 and the relevance of
\* a listing that is no exact model match is the fuzzy part plus the category
\* part alone.
C30_PartialEqualsExact ==
    rPc = "ranked" =>
        \A k \in 1..Len(rIn) :
            LET product_lower == Lower(rIn[k].productName)
                query_terms == extract_key_terms(Lower(rQuery))
            IN  /\ partial_matches(product_lower, query_terms)
                       = exact_matches(product_lower, query_terms)
                /\ query_terms = <<>> =>
                       /\ partial_matches(product_lower, query_terms) = 0
                       /\ ~FlaggedExact(rIn[k], rQuery) =>
                              BaseRelevance(rIn[k], rQuery) =
                                  (RelDen \div 400) * token_sort_ratio(product_lower, Lower(rQuery))
                                      + (RelDen \div 40) * AlignmentOf(rIn[k], rQuery)

\* a listing that holds some of the key terms of the query and lacks others
C30_Witness ==
    /\ rPc = "ranked"
    /\ \E k \in 1..Len(rIn) :
           LET matches == exact_matches(Lower(rIn[k].productName),
                                        extract_key_terms(Lower(rQuery)))
           IN  0 < matches /\ matches < Len(extract_key_terms(Lower(rQuery)))

\* ------------------------------------------------------------ composite score

\* C28: with the weights 0.75, 0.20 and 0.05 and the trust table of the
\* ranker, the relevance, the normalized price and the trust of every listing
\* lie in [0, 1], and so does its composite score.
C28_ScoreInUnitInterval ==
    rPc = "ranked" =>
        /\ \A i \in 1..Len(rNorm) : 0 <= rNorm[i][1] /\ rNorm[i][1] <= rNorm[i][2]
        /\ \A k \in 1..Len(rRanked) :
               LET score == rRanked[k].mcdm_score
                   one == 100 * 100 * RelDen
               IN  /\ 0 <= rRanked[k].relevance_score
                   /\ rRanked[k].relevance_score <= RelDen
                   /\ 0 <= TrustOf(rRanked[k].source) /\ TrustOf(rRanked[k].source) <= 100
                   /\ 0 <= score.fixed /\ score.fixed <= one
                   /\ 0 <= score.price[1] /\ 0 < score.price[2]
                   /\ FracCmp(score.price[1], score.price[2], one - score.fixed, one) <= 0

\* a listing with relevance 1.0 that is the cheapest of a set with two prices:
\* its composite score is 0.95 plus 0.05 times the trust of its source
C28_Witness ==
    /\ rPc = "ranked"
    /\ \E k \in 1..Len(rRanked) :
           /\ rRanked[k].relevance_score = RelDen
           /\ rRanked[k].mcdm_score.price[1] * 100 = rRanked[k].mcdm_score.price[2] * 20
           /\ rRanked[k].mcdm_score.fixed > 75 * 100 * RelDen

\* ---------------------------------------------------- what the ranker leaves alone

\* C22: calculate_mcdm_scores and filter_low_relevance leave the product dicts
\* handed in as they were, with their original fields and values and no score
\* (the scores are on the copies), filter_low_relevance leaves the ranked list
\* as it was, and the weights and the trust table of the ranker stay the ones
\* it was constructed with.
C22_InputsUnchanged ==
    /\ [][(rPc = "input" /\ rPc' = "ranked") => (rIn' = rIn /\ ranker' = ranker)]_vars
    /\ [][(rPc = "ranked" /\ rPc' = "filtered") =>
              (rIn' = rIn /\ rRanked' = rRanked /\ ranker' = ranker)]_vars
    /\ [](\A k \in 1..Len(rIn) :
              DOMAIN rIn[k] = {"link", "price", "currency", "productName", "source"})
    /\ [](ranker = <<[weights |-> [relevance |-> 75, price |-> 20, source_reliability |-> 5],
                      source_reliability |-> source_reliability]>>)

\* three products were scored and some were filtered out: the copies carry
\* the scores
C22_Witness ==
    /\ rPc = "filtered"
    /\ Len(rIn) = 3
    /\ Len(rRanked) = 3
    /\ Len(rFiltered) \in {1, 2}
    /\ \A k \in 1..3 : "mcdm_score" \in DOMAIN rRanked[k] /\ rRanked[k].relevance_score > 0
    /\ \E k \in 1..3 : ~SameListing(rRanked[k], rIn[k])

\* ----------------------------------------------------------- the ranker's weights

C25_CompletionOrderIrrelevant ==
    wPc = "done" =>
        /\ Len(tOrder) = Len(tState)
        /\ Combine(gather(tResult, tOrder)) = ListingsFrom(1)
        /\ wResult = RankAndFilter(Combine(gather(tResult, tOrder)), query)

\* the second source ended before the first, each served one listing, the
\* two are duplicates, and the listing of the first source is the one kept
C25_Witness ==
    /\ wPc = "done"
    /\ tOrder = <<2, 1>>
    /\ tPage[1] = <<ListingPool[1]>>
    /\ tPage[2] = <<ListingPool[2]>>
    /\ Succeeded = {1, 2}
    /\ Len(wResult) = 1
    /\ wResult[1].link = ListingPool[1].link

\* ------------------------------------------------- nothing fabricated or duplicated

\* C26: calculate_mcdm_scores returns one scored copy of each product handed
\* in, no more and no other; every listing of the result of search_products
\* was served in this query by a source that did not fail, and is in the
\* result once.
C26_NothingFabricated ==
    wPc = "done" =>
        LET unique_products == DictsOf(remove_duplicates(ListingsFrom(1)))
            ranked_products == calculate_mcdm_scores(unique_products, query)
        IN  /\ Len(ranked_products) = Len(unique_products)
            /\ \A i \in 1..Len(unique_products) :
                   Cardinality({k \in 1..Len(ranked_products) :
                                    SameListing(ranked_products[k], unique_products[i])})
                       = Cardinality({j \in 1..Len(unique_products) :
                                          unique_products[j] = unique_products[i]})
            /\ \A k \in 1..Len(wResult) :
                   \E s \in Succeeded : \E i \in 1..Len(tPage[s]) :
                       SameListing(wResult[k], to_dict(tPage[s][i]))
            /\ \A k, l \in 1..Len(wResult) :
                   SameListing(wResult[k], wResult[l]) => k = l

\* a source failed, the others served three listings of which one is a
\* duplicate, and the result holds the two others
C26_Witness ==
    /\ wPc = "done"
    /\ Len(ListingsFrom(1)) = 3
    /\ Len(wResult) = 2

\* ------------------------------------------------- searches nobody waits for

\* the searches that hold a worker of the executor
RunningSearches == {i \in DOMAIN sPc : sPc[i] = "running"}

\* C27: when a caller stops waiting, its search is left as it is, queued or
\* running; a running search frees its worker only when every one of its
\* source tasks has finished; a queued search starts only when fewer than 5
\* searches are running, so while 5 searches are running every later search
\* stays in the queue, whether or not the callers of the 5 have been answered
\* with a timeout.
C27_AbandonedSearchKeepsWorker ==
    /\ [][\A i \in DOMAIN sPc :
              (cPc[i] = "waiting" /\ cPc'[i] = "timeout") =>
                  (sPc' = sPc /\ sPending' = sPending)]_vars
    /\ [][\A i \in DOMAIN sPc :
              (sPc[i] = "running" /\ sPc'[i] # "running") =>
                  (sPc'[i] = "done" /\ sPending[i] = 0)]_vars
    /\ [][\A i \in DOMAIN sPc :
              (sPc[i] = "queued" /\ sPc'[i] # "queued") =>
                  /\ sPc'[i] = "running"
                  /\ Cardinality(RunningSearches) < MAX_CONCURRENT_REQUESTS]_vars
    /\ [](Cardinality(RunningSearches) <= MAX_CONCURRENT_REQUESTS)

\* 5 searches are running, the callers of all 5 have been answered with a
\* timeout, and a sixth search is in the queue
C27_Witness ==
    /\ Cardinality(RunningSearches) = MAX_CONCURRENT_REQUESTS
    /\ \A i \in RunningSearches : cPc[i] = "timeout"
    /\ \E i \in DOMAIN sPc : sPc[i] = "queued"

\* ------------------------------------------------------ two searches together

\* C21: whatever the interleaving of two searches, a step of one leaves the
\* query, the source results, the list all_products and the result of the
\* other as they were, and the result of each is the pipeline's result on its
\* own query and its own source results: the result it would get alone.
C21_SearchesIsolated ==
    /\ [][\A r \in 1..2 :
              qPc'[r] = qPc[r] =>
                  /\ qQuery'[r] = qQuery[r]
                  /\ qResults'[r] = qResults[r]
                  /\ all_products'[r] = all_products[r]
                  /\ qResult'[r] = qResult[r]]_vars
    /\ [](\A r \in 1..2 :
              /\ qPc[r] \in {"combined", "done"} => all_products[r] = Combine(qResults[r])
              /\ qPc[r] = "done" =>
                     qResult[r] = RankAndFilter(Combine(qResults[r]), qQuery[r]))

\* the first search has returned its result while the second, on another
\* query and other source results, is between its join and its ranking
C21_Witness ==
    /\ qPc[1] = "done"
    /\ qPc[2] = "combined"
    /\ qQuery[1] # qQuery[2]
    /\ all_products[1] # <<>>
    /\ all_products[2] # <<>>
    /\ all_products[1] # all_products[2]
    /\ qResult[1] # <<>>

====
